---- MODULE Spec2Model ----
(***************************************************************************)
(* Model of the Ziggurat container encoder (ziggypy) and of its driver     *)
(* (scripts/vrt_to_zig.py).                                                *)
(*                                                                         *)
(* Bytes are naturals in 0..255, byte strings are sequences of bytes.      *)
(* Python lists, tuples and numpy arrays are sequences; a Python index i   *)
(* is the sequence index i+1.  Corpus positions and lexicon ids keep their *)
(* 0-based values.                                                         *)
(***************************************************************************)
EXTENDS Integers, Sequences, FiniteSets, TLC

(***************************************************************************)
(* Bounds of the model                                                     *)
(***************************************************************************)
\* largest base layer size N
MaxN == 3
\* the pairs given to Index/IndexCompressed are three runs of equal keys:
\* at most MaxHead, then at most MaxRun, then at most MaxTail pairs
MaxRun == 17
MaxHead == 2
MaxTail == 2
\* an InvertedIndex has at most MaxTypes types and is given at most MaxPos
\* type-id lists, behind none or MaxGap positions that hold no type
MaxTypes == 3
MaxPos == 2
MaxGap == 70
\* most lines of a VRT input the driver reads
MaxLines == 5
\* a container put together by hand has at most MaxComponents components
MaxComponents == 3
\* a VRT file handed to SFileIter has at most MaxFileLines lines and is
\* iterated over at most MaxPasses times
MaxFileLines == 4
MaxPasses == 2
\* the input of a run of the conversion script has at most MaxTokens token lines
MaxTokens == 2
\* a vector built on its own has at most MaxRows rows of at most MaxD columns
MaxRows == 33
MaxD == 2
\* a Set built on its own has at most MaxSets sets
MaxSets == 33

\* the byte strings positional values are drawn from: "a", "b", "ab"
Strings == {<<97>>, <<98>>, <<97, 98>>}
\* the integers integer attributes are drawn from
Ints == {-1, 0, 70}
\* the keys index pairs are drawn from
Keys == {-70, 0, 1}

(***************************************************************************)
(* Sequences and bytes                                                     *)
(***************************************************************************)
Min(a, b) == IF a <= b THEN a ELSE b

Last(s) == s[Len(s)]

Front(s) == SubSeq(s, 1, Len(s) - 1)

RECURSIVE Concat(_)
\* b''.join(ss)
Concat(ss) == IF ss = <<>> THEN <<>> ELSE Head(ss) \o Concat(Tail(ss))

RECURSIVE SumSeq(_)
SumSeq(s) == IF s = <<>> THEN 0 ELSE Head(s) + SumSeq(Tail(s))

\* bytes(k): k zero bytes
Zeros(k) == [i \in 1..k |-> 0]

\* b.ljust(w, b'\0')
ljust(b, w) == IF Len(b) >= w THEN b ELSE b \o Zeros(w - Len(b))

RECURSIVE LEBytes(_, _)
\* the k low bytes of v, least significant first, two's complement
LEBytes(v, k) == IF k = 0 THEN <<>> ELSE <<v % 256>> \o LEBytes(v \div 256, k - 1)

\* struct.pack('<q', v)
pack_q(v) == LEBytes(v, 8)

\* struct.pack('B', v)
pack_B(v) == <<v % 256>>

\* int(a / b) for b > 0: Python's float division truncated towards zero
TruncDiv(a, b) == IF a >= 0 THEN a \div b ELSE -((-a) \div b)

(***************************************************************************)
(* Varint codec (ziggypy/varint.py, not among the sources: modelled from   *)
(* section 4.1 of the specification: zig-zag, then LEB128)                 *)
(***************************************************************************)
ZigZag(n) == IF n >= 0 THEN 2 * n ELSE -2 * n - 1

RECURSIVE LEB128(_)
LEB128(z) == IF z < 128 THEN <<z>> ELSE <<128 + (z % 128)>> \o LEB128(z \div 128)

encode_varint(n) == LEB128(ZigZag(n))

\* components.py:12  b"".join(encode_varint(i) for i in block)
encode_varint_block(block) == Concat([i \in 1..Len(block) |-> encode_varint(block[i])])

(***************************************************************************)
(* Components (ziggypy/components.py)                                      *)
(***************************************************************************)
BLOCKSIZE == 16

\* a constructor that raises (an assertion, a numpy reshape) builds nothing
Error(what) == [ctype |-> "Error", what |-> what]

IsError(c) == c.ctype = "Error"

\* len(range(0, n, BLOCKSIZE))
RangeSteps(n) == (n + BLOCKSIZE - 1) \div BLOCKSIZE

RECURSIVE PrefixLen(_, _)
\* len(blocks[0]) + ... + len(blocks[i-1])
PrefixLen(blocks, i) == IF i = 0 THEN 0 ELSE PrefixLen(blocks, i - 1) + Len(blocks[i])

\* SyncOffsets appending len(b) in place of sync[i-1] + len(b)
SyncOffsets_not_summed(first, blocks) ==
    LET m == IF Len(blocks) = 0 THEN 1 ELSE Len(blocks)
    IN  [i \in 1..m |-> IF i = 1 THEN first ELSE first + Len(blocks[i - 1])]

\* sync = [first]; for i, b in enumerate(blocks[:-1], start=1): sync.append(sync[i-1] + len(b))
SyncOffsets(first, blocks) ==
    LET m == IF Len(blocks) = 0 THEN 1 ELSE Len(blocks)
    IN  [i \in 1..m |-> first + PrefixLen(blocks, i - 1)]

\* the block of sixteen rows starting at row i (0-based), a short one padded with -1
VectorBlock(data, n, d, i) ==
    LET remaining == n - i
    IN  IF remaining >= 16
        THEN [r \in 1..BLOCKSIZE |-> data[i + r]]
        ELSE [r \in 1..16 |-> IF r <= remaining THEN data[i + r] ELSE [j \in 1..d |-> -1]]

\* Vector.__init__: the flat items reshaped to (d, n)
Vector(items, name, n, d) ==
    IF Len(items) # n * d THEN Error("reshape")
    ELSE [ctype |-> "Vector", component_type |-> 4, mode |-> 0, name |-> name,
          params |-> <<n, d>>, n |-> n, d |-> d,
          data |-> [j \in 1..d |-> [i \in 1..n |-> items[(j - 1) * n + i]]]]

\* Vector.bytelen leaving the number of columns out
Vector_bytelen_one_column(c) == c.n * 8

Vector_bytelen(c) == c.n * c.d * 8

Vector_write(c) ==
    Concat([i \in 1..c.n |-> Concat([j \in 1..c.d |-> pack_q(c.data[j][i])])])

\* VectorComp.__init__: the flat items reshaped to (n, d), blocks of sixteen rows
VectorComp(items, name, n, d) ==
    IF Len(items) # n * d THEN Error("reshape")
    ELSE LET data == [i \in 1..n |-> [j \in 1..d |-> items[(i - 1) * d + j]]]
             m == TruncDiv(n - 1, BLOCKSIZE) + 1
             blocks == [b \in 1..RangeSteps(n) |->
                          LET block == VectorBlock(data, n, d, (b - 1) * BLOCKSIZE)
                          IN  Concat([j \in 1..d |->
                                 encode_varint_block([r \in 1..Len(block) |-> block[r][j]])])]
             sync == SyncOffsets(0, blocks)
         IN  IF Len(blocks) # m THEN Error("assert len(blocks) == m")
             ELSE IF Len(sync) # m THEN Error("assert len(sync) == m")
             ELSE [ctype |-> "VectorComp", component_type |-> 4, mode |-> 1, name |-> name,
                   params |-> <<n, d>>, n |-> n, d |-> d,
                   encoded |-> Concat([i \in 1..Len(sync) |-> pack_q(sync[i])]) \o Concat(blocks)]

\* the delta rows of one block, every row taken against the first of the block
DeltaBlock_from_first_row(block, d) ==
    [r \in 1..Len(block) |->
        [j \in 1..d |-> IF r = 1 THEN block[1][j] ELSE block[r][j] - block[1][j]]]

\* the delta rows of one block: row 0 raw, row i minus row i-1
DeltaBlock(block, d) ==
    [r \in 1..Len(block) |->
        [j \in 1..d |-> IF r = 1 THEN block[1][j] ELSE block[r][j] - block[r - 1][j]]]

\* VectorDelta.__init__
VectorDelta(items, name, n, d) ==
    IF Len(items) # n * d THEN Error("reshape")
    ELSE LET data == [i \in 1..n |-> [j \in 1..d |-> items[(i - 1) * d + j]]]
             m == TruncDiv(n - 1, BLOCKSIZE) + 1
             blocks == [b \in 1..RangeSteps(n) |->
                          LET delta == DeltaBlock(VectorBlock(data, n, d, (b - 1) * BLOCKSIZE), d)
                          IN  Concat([j \in 1..d |->
                                 encode_varint_block([r \in 1..Len(delta) |-> delta[r][j]])])]
             sync == SyncOffsets(0, blocks)
         IN  IF Len(blocks) # m THEN Error("assert len(blocks) == m")
             ELSE IF Len(sync) # m THEN Error("assert len(sync) == m")
             ELSE [ctype |-> "VectorDelta", component_type |-> 4, mode |-> 2, name |-> name,
                   params |-> <<n, d>>, n |-> n, d |-> d, data |-> data,
                   encoded |-> Concat([i \in 1..Len(sync) |-> pack_q(sync[i])]) \o Concat(blocks)]

\* islice(strings, n)
islice(s, n) == SubSeq(s, 1, Min(n, Len(s)))

\* StringList.__init__
StringList(strings, name, n) ==
    LET taken == islice(strings, n)
    IN  [ctype |-> "StringList", component_type |-> 2, mode |-> 0, name |-> name,
         params |-> <<n, 0>>,
         encoded |-> Concat([i \in 1..Len(taken) |-> taken[i] \o <<0>>]),
         len |-> Len(taken)]

RECURSIVE SplitNul(_, _)
\* the NUL-terminated strings of a byte string; cur is the string being read
SplitNul(bs, cur) ==
    IF bs = <<>> THEN <<>>
    ELSE IF Head(bs) = 0 THEN <<cur>> \o SplitNul(Tail(bs), <<>>)
    ELSE SplitNul(Tail(bs), Append(cur, Head(bs)))

\* StringList.strings
StringList_strings(c) == SplitNul(c.encoded, <<>>)

\* StringVector.__init__
StringVector(strings, name, n) ==
    LET taken == islice(strings, n)
        cells == [i \in 1..Len(taken) |-> taken[i] \o <<0>>]
    IN  [ctype |-> "StringVector", component_type |-> 3, mode |-> 0, name |-> name,
         params |-> <<n, 0>>,
         encoded |-> Concat(cells),
         offsets |-> [i \in 1..Len(taken) |-> PrefixLen(cells, i - 1)]
                        \o <<PrefixLen(cells, Len(taken)) + 1>>]

StringVector_bytelen(c) == Len(c.offsets) * 8 + Len(c.encoded)

StringVector_write(c) == Concat([i \in 1..Len(c.offsets) |-> pack_q(c.offsets[i])]) \o c.encoded


RECURSIVE batched(_, _)
\* util.batched: tuples of length n, the last one may be shorter
batched(s, n) ==
    IF s = <<>> THEN <<>>
    ELSE <<SubSeq(s, 1, Min(n, Len(s)))>> \o batched(SubSeq(s, Min(n, Len(s)) + 1, Len(s)), n)

\* one block of Set.__init__: sixteen offsets, sixteen lengths, the encoded sets
SetBlock(batch) ==
    LET enc == [i \in 1..Len(batch) |->
                   IF Len(batch[i]) > 0 THEN encode_varint_block(batch[i]) ELSE <<>>]
        padding == IF Len(batch) < 16 THEN 16 - Len(batch) ELSE 0
        offsets == [i \in 1..Len(batch) |-> PrefixLen(enc, i - 1)] \o [i \in 1..padding |-> -1]
        lengths == [i \in 1..Len(batch) |-> Len(batch[i])] \o [i \in 1..padding |-> 0]
        offsets_delta == [i \in 1..Len(offsets) |->
                            IF i = 1 THEN offsets[1] ELSE offsets[i] - offsets[i - 1]]
    IN  encode_varint_block(offsets_delta) \o encode_varint_block(lengths) \o Concat(enc)

\* Set.__init__ over sets of integers
Set(sets, name, n, p) ==
    IF ~(p > 0) THEN Error("assert p > 0")
    ELSE LET batches == batched(sets, 16)
             blocks == [b \in 1..Len(batches) |-> SetBlock(batches[b])]
         IN  [ctype |-> "Set", component_type |-> 5, mode |-> 1, name |-> name,
              params |-> <<n, p>>,
              sync |-> SyncOffsets(Len(blocks) * 8, blocks),
              blocks |-> blocks]

Set_bytelen(c) == Len(c.sync) * 8 + SumSeq([b \in 1..Len(c.blocks) |-> Len(c.blocks[b])])

Set_write(c) == Concat([i \in 1..Len(c.sync) |-> pack_q(c.sync[i])]) \o Concat(c.blocks)

RECURSIVE InsertBy(_, _, _)
\* x put behind every row whose column c is <= x's
InsertBy(c, s, x) ==
    IF s = <<>> THEN <<x>>
    ELSE IF x[c] < Head(s)[c] THEN <<x>> \o s
    ELSE <<Head(s)>> \o InsertBy(c, Tail(s), x)

RECURSIVE argsort(_, _)
\* data[data[:,c].argsort()]: the rows ordered by column c, equal ones in their order
argsort(c, data) ==
    IF data = <<>> THEN <<>> ELSE InsertBy(c, argsort(c, Front(data)), Last(data))

\* sort_pairs ordering by key only, the ties left in the order supplied
sort_pairs_by_key_only(data, sorted) == IF sorted THEN data ELSE argsort(1, data)

\* Index.__init__ / IndexCompressed.__init__: "if not sorted"; rows are <<key, position>>
sort_pairs(data, sorted) == IF sorted THEN data ELSE argsort(1, argsort(2, data))

\* Index.__init__
Index(pairs, name, n, sorted) ==
    IF Len(pairs) # n THEN Error("reshape")
    ELSE [ctype |-> "Index", component_type |-> 6, mode |-> 0, name |-> name,
          params |-> <<n, 0>>,
          data |-> sort_pairs(pairs, sorted)]

Index_bytelen(c) == Len(c.data) * 2 * 8

Index_write(c) == Concat([i \in 1..Len(c.data) |-> pack_q(c.data[i][1]) \o pack_q(c.data[i][2])])

RECURSIVE split_loop_every_sixteen(_, _, _, _, _)
\* split_loop closing a block at sixteen pairs whatever the next key is
split_loop_every_sixteen(data, i, blen, bstart, blocks) ==
    IF i = Len(data) THEN [blen |-> blen, bstart |-> bstart, blocks |-> blocks]
    ELSE IF blen < 16 THEN split_loop_every_sixteen(data, i + 1, blen + 1, bstart, blocks)
    ELSE split_loop_every_sixteen(data, i + 1, 1, i, Append(blocks, SubSeq(data, bstart + 1, i)))

RECURSIVE split_loop(_, _, _, _, _)
\* IndexCompressed.__init__, the loop over range(len(data)); i is the Python index
split_loop(data, i, blen, bstart, blocks) ==
    IF i = Len(data) THEN [blen |-> blen, bstart |-> bstart, blocks |-> blocks]
    ELSE IF blen < 16 THEN split_loop(data, i + 1, blen + 1, bstart, blocks)
    ELSE IF data[i + 1][1] = data[i][1] THEN split_loop(data, i + 1, blen + 1, bstart, blocks)
    ELSE split_loop(data, i + 1, 1, i, Append(blocks, SubSeq(data, bstart + 1, i)))

\* IndexCompressed.__init__: blocks and block_padding after "if blen != 0"
split_blocks(data) ==
    LET l == split_loop(data, 0, 0, 0, <<>>)
        rest == SubSeq(data, l.bstart + 1, Len(data))
    IN  IF l.blen # 0
        THEN IF l.blen < 16
             THEN [block_padding |-> 16 - l.blen,
                   blocks |-> Append(l.blocks,
                                [r \in 1..16 |-> IF r <= l.blen THEN rest[r] ELSE <<-1, -1>>])]
             ELSE [block_padding |-> 0, blocks |-> Append(l.blocks, rest)]
        ELSE [block_padding |-> 0, blocks |-> l.blocks]

\* pack_block storing the block's length in place of its excess over sixteen
pack_block_stores_length(b) ==
    LET keys == [i \in 1..Min(16, Len(b)) |-> b[i][1]]
        keys_delta == [i \in 1..Len(keys) |-> IF i = 1 THEN keys[1] ELSE keys[i] - keys[i - 1]]
        positions == [i \in 1..Len(b) |-> b[i][2]]
        positions_delta == [i \in 1..Len(positions) |->
                               IF i = 1 THEN positions[1] ELSE positions[i] - positions[i - 1]]
    IN  encode_varint(Len(b)) \o encode_varint_block(keys_delta)
            \o encode_varint_block(positions_delta)

\* IndexCompressed.__init__, one iteration of "for b in blocks"
pack_block(b) ==
    LET keys == [i \in 1..Min(16, Len(b)) |-> b[i][1]]
        keys_delta == [i \in 1..Len(keys) |-> IF i = 1 THEN keys[1] ELSE keys[i] - keys[i - 1]]
        positions == [i \in 1..Len(b) |-> b[i][2]]
        positions_delta == [i \in 1..Len(positions) |->
                               IF i = 1 THEN positions[1] ELSE positions[i] - positions[i - 1]]
    IN  encode_varint(Len(b) - 16) \o encode_varint_block(keys_delta)
            \o encode_varint_block(positions_delta)

\* the locals of IndexCompressed.__init__, the padding counted among the regular items
IndexCompressed_locals_padding_counted(pairs, sorted) ==
    LET data == sort_pairs(pairs, sorted)
        sb == split_blocks(data)
        blocks == sb.blocks
        r == Len(blocks) * 16
        packed_blocks == [b \in 1..Len(blocks) |-> pack_block(blocks[b])]
    IN  [data |-> data, blocks |-> blocks, block_padding |-> sb.block_padding,
         r |-> r, o |-> Len(data) - r, mr |-> TruncDiv(r - 1, 16) + 1,
         packed_blocks |-> packed_blocks,
         block_keys |-> [b \in 1..Len(blocks) |-> blocks[b][1][1]],
         offsets |-> SyncOffsets(0, packed_blocks)]

\* IndexCompressed.__init__: its local variables
IndexCompressed_locals(pairs, sorted) ==
    LET data == sort_pairs(pairs, sorted)
        sb == split_blocks(data)
        blocks == sb.blocks
        r == Len(blocks) * 16 - sb.block_padding
        packed_blocks == [b \in 1..Len(blocks) |-> pack_block(blocks[b])]
    IN  [data |-> data, blocks |-> blocks, block_padding |-> sb.block_padding,
         r |-> r, o |-> Len(data) - r, mr |-> TruncDiv(r - 1, 16) + 1,
         packed_blocks |-> packed_blocks,
         block_keys |-> [b \in 1..Len(blocks) |-> blocks[b][1][1]],
         offsets |-> SyncOffsets(0, packed_blocks)]

\* IndexCompressed.__init__
IndexCompressed(pairs, name, n, sorted) ==
    IF Len(pairs) # n THEN Error("reshape")
    ELSE LET v == IndexCompressed_locals(pairs, sorted)
         IN  IF v.mr # Len(v.blocks) THEN Error("assert mr == len(blocks)")
             ELSE IF Len(v.offsets) # v.mr THEN Error("assert len(offsets) == mr")
             ELSE [ctype |-> "IndexCompressed", component_type |-> 6, mode |-> 1,
                   name |-> name, params |-> <<n, 2>>,
                   encoded |-> pack_q(v.r)
                       \o Concat([b \in 1..v.mr |->
                                    pack_q(v.block_keys[b]) \o pack_q(v.offsets[b])])
                       \o Concat(v.packed_blocks)]

RECURSIVE occurrences(_, _, _)
\* the positions i (0-based, from i on) whose type-id list holds t, once per occurrence
occurrences(positions, i, t) ==
    IF i >= Len(positions) THEN <<>>
    ELSE [k \in 1..Len(SelectSeq(positions[i + 1], LAMBDA x : x = t)) |-> i]
             \o occurrences(positions, i + 1, t)

\* postings[t] of a Python list of v entries: a negative t counts from the end
list_index(positions, v) ==
    [i \in 1..Len(positions) |->
        [x \in 1..Len(positions[i]) |->
            IF positions[i][x] < 0 THEN positions[i][x] + v ELSE positions[i][x]]]

\* build_postings with the positions counted from one
build_postings_from_one(types, positions) ==
    [t \in 1..Len(types) |->
        [x \in 1..Len(occurrences(list_index(positions, Len(types)), 0, t - 1)) |->
            occurrences(list_index(positions, Len(types)), 0, t - 1)[x] + 1]]

\* InvertedIndex.__init__: "build postings lists"
build_postings(types, positions) ==
    [t \in 1..Len(types) |-> occurrences(list_index(positions, Len(types)), 0, t - 1)]

\* InvertedIndex.__init__; a type id outside -V..V-1 raises IndexError
InvertedIndex(types, positions, name, k) ==
    IF \E i \in 1..Len(positions) : \E x \in 1..Len(positions[i]) :
           ~(positions[i][x] \in (-Len(types))..(Len(types) - 1))
    THEN Error("IndexError")
    ELSE LET postings == build_postings(types, positions)
             postings_encoded ==
                 [t \in 1..Len(postings) |->
                     encode_varint_block([x \in 1..Len(postings[t]) |->
                         IF x = 1 THEN postings[t][1] ELSE postings[t][x] - postings[t][x - 1]])]
         IN  [ctype |-> "InvertedIndex", component_type |-> 7, mode |-> 1, name |-> name,
              params |-> <<k, 0>>,
              encoded |-> <<>>,
              typeinfo |-> [t \in 1..Len(postings) |->
                               <<Len(postings[t]), PrefixLen(postings_encoded, t - 1)>>],
              postings_encoded |-> postings_encoded]

InvertedIndex_bytelen(c) == Len(c.encoded)

InvertedIndex_write(c) ==
    Concat([t \in 1..Len(c.typeinfo) |-> pack_q(c.typeinfo[t][1]) \o pack_q(c.typeinfo[t][2])])
        \o Concat(c.postings_encoded)

\* Component.bytelen of each class
bytelen(c) ==
    CASE c.ctype = "Vector" -> Vector_bytelen(c)
      [] c.ctype = "StringVector" -> StringVector_bytelen(c)
      [] c.ctype = "Set" -> Set_bytelen(c)
      [] c.ctype = "Index" -> Index_bytelen(c)
      [] c.ctype = "InvertedIndex" -> InvertedIndex_bytelen(c)
      [] OTHER -> Len(c.encoded)

\* Component.write of each class: the bytes it hands to f.write
write(c) ==
    CASE c.ctype = "Vector" -> Vector_write(c)
      [] c.ctype = "StringVector" -> StringVector_write(c)
      [] c.ctype = "Set" -> Set_write(c)
      [] c.ctype = "Index" -> Index_write(c)
      [] c.ctype = "InvertedIndex" -> InvertedIndex_write(c)
      [] OTHER -> c.encoded


(***************************************************************************)
(* Container (ziggypy/container.py)                                        *)
(***************************************************************************)
BOM_START == 160

LEN_BOM_ENTRY == 48

data_start(cn) == BOM_START + (cn * LEN_BOM_ENTRY)

\* align_offset adding a pad to an offset that is aligned already
align_offset_always_pads(o) == o + (8 - (o % 8))

\* align_offset rounding to the multiple of 8 below
align_offset_down(o) == o - (o % 8)

align_offset(o) == IF o % 8 > 0 THEN o + (8 - (o % 8)) ELSE o

\* str.encode('ascii') of the literals the encoder writes
ascii(str) ==
    CASE str = "Ziggurat" -> <<90, 105, 103, 103, 117, 114, 97, 116>>
      [] str = "1.0" -> <<49, 46, 48>>
      [] str = "ZLp" -> <<90, 76, 112>>
      [] str = "ZLs" -> <<90, 76, 115>>
      [] str = "corpus.vrt" -> <<99, 111, 114, 112, 117, 115, 46, 118, 114, 116>>
      [] str = "s-attr s" -> <<115, 45, 97, 116, 116, 114, 32, 115>>
      [] str = "ZVc" -> <<90, 86, 99>>
      [] str = "ZVx" -> <<90, 86, 120>>
      [] str = "ZVi" -> <<90, 86, 105>>
      [] str = "ZVs" -> <<90, 86, 115>>
      [] str = "ZVp" -> <<90, 86, 112>>
      [] str = "StringData" -> <<83, 116, 114, 105, 110, 103, 68, 97, 116, 97>>
      [] str = "OffsetStream" -> <<79, 102, 102, 115, 101, 116, 83, 116, 114, 101, 97, 109>>
      [] str = "StringHash" -> <<83, 116, 114, 105, 110, 103, 72, 97, 115, 104>>
      [] str = "Lexicon" -> <<76, 101, 120, 105, 99, 111, 110>>
      [] str = "LexHash" -> <<76, 101, 120, 72, 97, 115, 104>>
      [] str = "LexIDStream" -> <<76, 101, 120, 73, 68, 83, 116, 114, 101, 97, 109>>
      [] str = "LexIDIndex" -> <<76, 101, 120, 73, 68, 73, 110, 100, 101, 120>>
      [] str = "IntStream" -> <<73, 110, 116, 83, 116, 114, 101, 97, 109>>
      [] str = "IntSort" -> <<73, 110, 116, 83, 111, 114, 116>>
      [] str = "IDSetStream" -> <<73, 68, 83, 101, 116, 83, 116, 114, 101, 97, 109>>
      [] str = "IDSetIndex" -> <<73, 68, 83, 101, 116, 73, 110, 100, 101, 120>>
      [] str = "HeadStream" -> <<72, 101, 97, 100, 83, 116, 114, 101, 97, 109>>
      [] str = "HeadSort" -> <<72, 101, 97, 100, 83, 111, 114, 116>>
      [] str = "RangeStream" -> <<82, 97, 110, 103, 101, 83, 116, 114, 101, 97, 109>>
      [] str = "StartSort" -> <<83, 116, 97, 114, 116, 83, 111, 114, 116>>
      [] str = "EndSort" -> <<69, 110, 100, 83, 111, 114, 116>>
      [] str = " encoded using ZiggyPy" ->
             <<32, 101, 110, 99, 111, 100, 101, 100, 32, 117, 115, 105, 110, 103,
               32, 90, 105, 103, 103, 121, 80, 121>>

\* a UUID is a natural >= 1 (uuid4 never yields the nil UUID); None is 0
None == 0

\* UUID.bytes: sixteen bytes, most significant first
uuid_bytes(u) == [i \in 1..16 |-> LEBytes(u, 16)[17 - i]]

\* a Layer or Variable whose construction raised
Failed(what) == [cls |-> "Failed", what |-> what]

\* str.encode('utf-8') of a string given as its code points below 65536
encode_utf8(str) ==
    Concat([i \in 1..Len(str) |->
               IF str[i] < 128 THEN <<str[i]>>
               ELSE IF str[i] < 2048
               THEN <<192 + (str[i] \div 64), 128 + (str[i] % 64)>>
               ELSE <<224 + (str[i] \div 4096), 128 + ((str[i] \div 64) % 64),
                      128 + (str[i] % 64)>>])

\* Container.__init__ accepting a stored comment of 72 bytes
Container_accepts_72(components, container_type, dimensions, uuid, base_uuids, comment) ==
    LET stored == encode_utf8(comment) \o ascii(" encoded using ZiggyPy")
    IN  IF ~(Len(stored) <= 72) THEN Failed("Comment exceeding maximum length")
        ELSE [cls |-> "Container", components |-> components,
              container_type |-> container_type, dimensions |-> dimensions,
              uuid |-> uuid, base_uuids |-> base_uuids, comment |-> stored]

\* Container.__init__; it raises when the stored comment has 72 bytes or more
Container(components, container_type, dimensions, uuid, base_uuids, comment) ==
    LET stored == encode_utf8(comment) \o ascii(" encoded using ZiggyPy")
    IN  IF ~(Len(stored) < 72) THEN Failed("Comment exceeding maximum length")
        ELSE [cls |-> "Container", components |-> components,
              container_type |-> container_type, dimensions |-> dimensions,
              uuid |-> uuid, base_uuids |-> base_uuids, comment |-> stored]

\* Component.write_bom
write_bom(c, offset, size) ==
    pack_B(1) \o pack_B(c.component_type) \o pack_B(c.mode) \o ljust(ascii(c.name), 13)
        \o pack_q(offset) \o pack_q(size)
        \o pack_q(IF c.params[1] # 0 THEN c.params[1] ELSE 0)
        \o pack_q(IF c.params[2] # 0 THEN c.params[2] ELSE 0)

RECURSIVE bom_offsets(_, _)
\* Container.write_header: the first i entries of self.offsets
bom_offsets(components, i) ==
    IF i = 1 THEN <<data_start(Len(components))>>
    ELSE LET prev == bom_offsets(components, i - 1)
         IN  Append(prev, align_offset(prev[i - 1] + bytelen(components[i - 1])))

\* Container.write_header: self.offsets
header_offsets(components) ==
    bom_offsets(components, IF Len(components) = 0 THEN 1 ELSE Len(components))

\* Container.write_header counting one more component allocated than used
header_bytes_one_more_allocated(c) ==
    ascii("Ziggurat") \o ascii("1.0") \o ascii(c.container_type)
        \o pack_B(Len(c.components) + 1) \o pack_B(Len(c.components))
        \o uuid_bytes(c.uuid)
        \o (IF c.base_uuids[1] # None THEN uuid_bytes(c.base_uuids[1]) ELSE Zeros(16))
        \o (IF c.base_uuids[2] # None THEN uuid_bytes(c.base_uuids[2]) ELSE Zeros(16))
        \o pack_q(c.dimensions[1]) \o pack_q(c.dimensions[2])
        \o Zeros(8)
        \o ljust(c.comment, 72)
        \o Concat([i \in 1..Len(c.components) |->
                      write_bom(c.components[i], header_offsets(c.components)[i],
                                bytelen(c.components[i]))])

\* Container.write_header: the bytes it writes, the fixed header and the BOM
header_bytes(c) ==
    ascii("Ziggurat") \o ascii("1.0") \o ascii(c.container_type)
        \o pack_B(Len(c.components)) \o pack_B(Len(c.components))
        \o uuid_bytes(c.uuid)
        \o (IF c.base_uuids[1] # None THEN uuid_bytes(c.base_uuids[1]) ELSE Zeros(16))
        \o (IF c.base_uuids[2] # None THEN uuid_bytes(c.base_uuids[2]) ELSE Zeros(16))
        \o pack_q(c.dimensions[1]) \o pack_q(c.dimensions[2])
        \o Zeros(8)
        \o ljust(c.comment, 72)
        \o Concat([i \in 1..Len(c.components) |->
                      write_bom(c.components[i], header_offsets(c.components)[i],
                                bytelen(c.components[i]))])


(***************************************************************************)
(* Variables (ziggypy/variables.py)                                        *)
(***************************************************************************)
\* the hash is kept to its sixteen low bits: 2^16
HashMod == 256 * 256

RECURSIVE BitXor(_, _)
BitXor(a, b) ==
    IF a = 0 THEN b
    ELSE IF b = 0 THEN a
    ELSE (((a % 2) + (b % 2)) % 2) + 2 * BitXor(a \div 2, b \div 2)

RECURSIVE fnv1a(_, _)
\* fnv1a_64 from state h on: xor the byte, multiply by the prime (low bits 0x1b3)
fnv1a(h, data) ==
    IF data = <<>> THEN h
    ELSE fnv1a((BitXor(h, Head(data)) * 435) % HashMod, Tail(data))

\* fnv_hash: FNV-1a (offset basis, low bits 0x2325) reinterpreted as a signed integer
fnv_hash(data) ==
    LET h == fnv1a(8997, data)
    IN  IF h >= HashMod \div 2 THEN h - HashMod ELSE h

\* the first component that failed to build, if any, makes the constructor raise
FirstError(components) ==
    LET bad == {i \in 1..Len(components) : IsError(components[i])}
    IN  components[CHOOSE i \in bad : \A j \in bad : i <= j]

\* a Variable or Layer object around its container
Object(cls, n, uuid, components, container_type, dimensions, base_uuid, comment) ==
    IF \E i \in 1..Len(components) : IsError(components[i])
    THEN Failed(FirstError(components).what)
    ELSE LET c == Container(components, container_type, dimensions, uuid,
                            <<base_uuid, None>>, comment)
         IN  IF c.cls = "Failed" THEN c
             ELSE [cls |-> cls, n |-> n, uuid |-> uuid, container |-> c]

\* [(key(x), i) for i, x in enumerate(xs)]
enumerate_pairs(keys) == [i \in 1..Len(keys) |-> <<keys[i], i - 1>>]

\* accumulate(chain([0], strings), lambda x, y: x + len(y) + 1)
accumulate_offsets(strings) ==
    [i \in 1..(Len(strings) + 1) |->
        PrefixLen([k \in 1..Len(strings) |-> strings[k] \o <<0>>], i - 1)]

\* PlainStringVariable.__init__
PlainStringVariable(base, strings, uuid, compressed, comment) ==
    LET string_data == StringList(strings, "StringData", base.n)
    IN  IF string_data.len # base.n
        THEN Failed("variable must be of same size as its base layer")
        ELSE LET offsets_list == accumulate_offsets(StringList_strings(string_data))
                 offset_stream ==
                     IF compressed
                     THEN VectorDelta(offsets_list, "OffsetStream", Len(offsets_list), 1)
                     ELSE Vector(offsets_list, "OffsetStream", Len(offsets_list), 1)
                 strs == StringList_strings(string_data)
                 string_pairs == enumerate_pairs([i \in 1..Len(strs) |-> fnv_hash(strs[i])])
                 string_hash ==
                     IF compressed
                     THEN IndexCompressed(string_pairs, "StringHash", base.n, FALSE)
                     ELSE Index(string_pairs, "StringHash", base.n, FALSE)
             IN  Object("PlainStringVariable", base.n, uuid,
                        <<string_data, offset_stream, string_hash>>,
                        "ZVc", <<base.n, 0>>, base.uuid, comment)

RECURSIVE uniq(_)
\* the distinct elements in first-seen order (the keys of a Counter)
uniq(s) ==
    IF s = <<>> THEN <<>>
    ELSE LET u == uniq(Front(s))
         IN  IF \E i \in 1..Len(u) : u[i] = Last(s) THEN u ELSE Append(u, Last(s))

\* Counter(s)[x]
count(s, x) == Len(SelectSeq(s, LAMBDA y : y = x))

RECURSIVE InsertDesc(_, _, _)
\* x put behind every element that occurs at least as often
InsertDesc(all, s, x) ==
    IF s = <<>> THEN <<x>>
    ELSE IF count(all, x) > count(all, Head(s)) THEN <<x>> \o s
    ELSE <<Head(s)>> \o InsertDesc(all, Tail(s), x)

RECURSIVE by_count(_, _)
by_count(all, u) ==
    IF u = <<>> THEN <<>> ELSE InsertDesc(all, by_count(all, Front(u)), Last(u))

\* the keys of the Counter as they were inserted, not ordered by count
most_common_unordered(s) == uniq(s)

\* [x[0] for x in Counter(s).most_common()]: by count descending, ties first-seen first
most_common(s) == by_count(s, uniq(s))

\* lex[x] for lex = {x[0]: i for i, x in enumerate(Counter(..).most_common())}
lex_id(lex, x) == (CHOOSE i \in 1..Len(lex) : lex[i] = x) - 1

\* IndexedStringVariable.__init__
IndexedStringVariable(base, strings, uuid, compressed, comment) ==
    IF Len(strings) # base.n THEN Failed("variable must be of same size as its base layer")
    ELSE LET lex == most_common(strings)
             total == Len(strings)
             lsize == Len(lex)
             lexicon == StringVector(lex, "Lexicon", lsize)
             hashes == enumerate_pairs([i \in 1..lsize |-> fnv_hash(lex[i])])
             lexindex == Index(hashes, "LexHash", lsize, FALSE)
             \* the generator (lex[s] for s in strings)
             lexids == [i \in 1..Len(strings) |-> lex_id(lex, strings[i])]
             lexidstream == IF compressed
                            THEN VectorComp(lexids, "LexIDStream", total, 1)
                            ELSE Vector(lexids, "LexIDStream", total, 1)
             \* np.fromiter has drained the generator: it yields nothing more
             lexids_rest == SubSeq(lexids, Len(lexids) + 1, Len(lexids))
             invidx == InvertedIndex(lex, lexids_rest, "LexIDIndex", lsize)
         IN  Object("IndexedStringVariable", base.n, uuid,
                    <<lexicon, lexindex, lexidstream, invidx>>,
                    "ZVx", <<base.n, lsize>>, base.uuid, comment)

\* FileIndexedStringVariable.__init__; file is what one pass over the iterator yields
FileIndexedStringVariable(base, file, uuid, compressed, comment) ==
    LET size == base.n
        lex == most_common(file)
        lsize == Len(lex)
        lexicon == StringVector(lex, "Lexicon", lsize)
        hashes == enumerate_pairs([i \in 1..lsize |-> fnv_hash(lex[i])])
        lexindex == Index(hashes, "LexHash", lsize, FALSE)
        lexids == [i \in 1..Len(file) |-> lex_id(lex, file[i])]
        lexidstream == IF compressed
                       THEN VectorComp(lexids, "LexIDStream", size, 1)
                       ELSE Vector(lexids, "LexIDStream", size, 1)
        invidx == InvertedIndex(lex, [i \in 1..Len(file) |-> <<lexids[i]>>],
                                "LexIDIndex", lsize)
    IN  Object("FileIndexedStringVariable", base.n, uuid,
               <<lexicon, lexindex, lexidstream, invidx>>,
               "ZVx", <<base.n, lsize>>, base.uuid, comment)

\* the integer stream and the sort index of IntegerVariable and FileIntegerVariable
int_components(ints, length, compressed, delta) ==
    LET int_stream == IF compressed
                      THEN IF delta THEN VectorDelta(ints, "IntStream", length, 1)
                           ELSE VectorComp(ints, "IntStream", length, 1)
                      ELSE Vector(ints, "IntStream", length, 1)
        \* pairs.sort(key = lambda x: x[0])
        pairs == argsort(1, enumerate_pairs(ints))
        int_sort == IF compressed
                    THEN IndexCompressed(pairs, "IntSort", length, FALSE)
                    ELSE Index(pairs, "IntSort", length, FALSE)
    IN  <<int_stream, int_sort>>

\* IntegerVariable.__init__
IntegerVariable(base, ints, uuid, compressed, delta, comment) ==
    IF Len(ints) # base.n THEN Failed("variable must be of same size as its base layer")
    ELSE Object("IntegerVariable", base.n, uuid,
                int_components(ints, Len(ints), compressed, delta),
                "ZVi", <<base.n, 1>>, base.uuid, comment)

\* FileIntegerVariable.__init__; file holds the integers parse_int makes of one pass
FileIntegerVariable(base, file, length, uuid, compressed, delta, comment) ==
    IF length # base.n THEN Failed("variable must be of same size as its base layer")
    ELSE Object("FileIntegerVariable", base.n, uuid,
                int_components(file, length, compressed, delta),
                "ZVi", <<base.n, 1>>, base.uuid, comment)

\* the components of SetVariable and FileSetVariable; a set is the sequence of its
\* elements in the order Python iterates over it
set_components(sets, n) ==
    LET types == most_common(Concat(sets))
        v == Len(types)
        lexicon == StringVector(types, "Lexicon", v)
        types_hash == enumerate_pairs([i \in 1..v |-> fnv_hash(types[i])])
        lexhash == Index(types_hash, "LexHash", Len(types_hash), FALSE)
        \* sorted([types[i] for i in s]): the ids ascending
        id_sets == [k \in 1..Len(sets) |->
                       LET ids == {lex_id(types, sets[k][x]) : x \in 1..Len(sets[k])}
                       IN  SelectSeq([i \in 1..v |-> i - 1], LAMBDA id : id \in ids)]
    IN  <<lexicon, lexhash, Set(id_sets, "IDSetStream", n, 1),
          InvertedIndex(types, id_sets, "IDSetIndex", v)>>

\* SetVariable.__init__
SetVariable(base, sets, uuid, comment) ==
    IF Len(sets) # base.n THEN Failed("variable must be of same size as its base layer")
    ELSE Object("SetVariable", base.n, uuid, set_components(sets, Len(sets)),
                "ZVs", <<Len(sets), Len(most_common(Concat(sets)))>>, base.uuid, comment)

\* FileSetVariable.__init__; file holds the sets parse_set makes of one pass
FileSetVariable(base, file, length, uuid, comment) ==
    IF length # base.n THEN Failed("variable must be of same size as its base layer")
    ELSE Object("FileSetVariable", base.n, uuid, set_components(file, length),
                "ZVs", <<length, Len(most_common(Concat(file)))>>, base.uuid, comment)

\* PointerVariable.__init__ letting a head be N
PointerVariable_head_may_be_N(base, heads, uuid, compressed, comment) ==
    IF Len(heads) # base.n THEN Failed("variable must be of same size as its base layer")
    ELSE IF ~(\A i \in 1..Len(heads) : heads[i] >= -1 /\ heads[i] <= Len(heads))
    THEN Failed("Head pointers must fall into the range [-1, N-1]")
    ELSE LET head_stream == VectorDelta(heads, "HeadStream", Len(heads), 1)
             pairs == argsort(1, enumerate_pairs(heads))
             head_sort == IF compressed
                          THEN IndexCompressed(pairs, "HeadSort", Len(heads), FALSE)
                          ELSE Index(pairs, "HeadSort", Len(heads), FALSE)
         IN  Object("PointerVariable", base.n, uuid, <<head_stream, head_sort>>,
                    "ZVp", <<Len(heads), 0>>, base.uuid, comment)

\* PointerVariable.__init__
PointerVariable(base, heads, uuid, compressed, comment) ==
    IF Len(heads) # base.n THEN Failed("variable must be of same size as its base layer")
    ELSE IF ~(\A i \in 1..Len(heads) : heads[i] >= -1 /\ heads[i] < Len(heads))
    THEN Failed("Head pointers must fall into the range [-1, N-1]")
    ELSE LET head_stream == VectorDelta(heads, "HeadStream", Len(heads), 1)
             pairs == argsort(1, enumerate_pairs(heads))
             head_sort == IF compressed
                          THEN IndexCompressed(pairs, "HeadSort", Len(heads), FALSE)
                          ELSE Index(pairs, "HeadSort", Len(heads), FALSE)
         IN  Object("PointerVariable", base.n, uuid, <<head_stream, head_sort>>,
                    "ZVp", <<Len(heads), 0>>, base.uuid, comment)

(***************************************************************************)
(* Layers (ziggypy/layers.py)                                              *)
(***************************************************************************)
\* PrimaryLayer.__init__
PrimaryLayer(n, uuid, comment) ==
    LET c == Container(<<>>, "ZLp", <<n, 0>>, uuid, <<None, None>>, comment)
    IN  IF c.cls = "Failed" THEN c
        ELSE [cls |-> "PrimaryLayer", n |-> n, uuid |-> uuid, container |-> c]

\* SegmentationLayer.__init__; ranges are <<start, end>> rows
SegmentationLayer(base, n, ranges, uuid, compressed, comment) ==
    IF Len(ranges) # n THEN Failed("reshape")
    ELSE LET range_stream == VectorDelta(Concat(ranges), "RangeStream", n, 2)
             range_start_index == [i \in 1..n |-> <<ranges[i][1], i - 1>>]
             range_end_index == [i \in 1..n |-> <<ranges[i][2], i - 1>>]
             start_sort == IF compressed
                           THEN IndexCompressed(range_start_index, "StartSort", n, TRUE)
                           ELSE Index(range_start_index, "StartSort", n, TRUE)
             end_sort == IF compressed
                         THEN IndexCompressed(range_end_index, "EndSort", n, FALSE)
                         ELSE Index(range_end_index, "EndSort", n, FALSE)
         IN  Object("SegmentationLayer", n, uuid, <<range_stream, start_sort, end_sort>>,
                    "ZLs", <<n, 0>>, base.uuid, comment)


(***************************************************************************)
(* State                                                                   *)
(***************************************************************************)
VARIABLES
    pc,          \* where the program is: "start", "built", "writing", "done", "failed"
    base_layer,  \* the Layer object a Variable is built on
    arg,         \* the argument the caller hands to the constructor
    obj,         \* the Layer or Variable constructed, with its container
    offsets,     \* Container.offsets, set by write_header
    f,           \* the bytes written to the sink so far
    wi,          \* Container.write: the components written so far
    comp,        \* a component built on its own
    cpos,        \* vrt_to_zig: the corpus positions counted so far
    stack,       \* vrt_to_zig: the opened tags, <<startpos, tagname>>
    spans,       \* vrt_to_zig: for each tag seen closed, its <<startpos, endpos>> list
    parser_state,\* vrt_to_zig: what the expat handlers recorded last
    elements,    \* the elements the expat parser has open
    nread,       \* the lines of the input read so far
    files        \* the files written and closed, <<name, bytes>>

vars == <<pc, base_layer, arg, obj, offsets, f, wi, comp,
          cpos, stack, spans, parser_state, elements, nread, files>>

\* the state of the driver script
driver == <<cpos, stack, spans, parser_state, elements, nread, files>>

\* the driver script is not running
NoDriver ==
    /\ cpos = 0
    /\ stack = <<>>
    /\ spans = <<>>
    /\ parser_state = [is_closing_tag |-> FALSE, tagname |-> ""]
    /\ elements = <<>>
    /\ nread = 0
    /\ files = <<>>

NoObject == [cls |-> "None"]

NoComponent == [ctype |-> "None"]

NoArg == [values |-> <<>>]

\* sequences of at most k elements of S
SeqsUpTo(S, k) == UNION {[1..m -> S] : m \in 0..k}

\* the comments a caller passes: none, 49 ASCII characters, 48 and one of two bytes
Comments == {<<>>, [i \in 1..49 |-> 99], [i \in 1..48 |-> 99] \o <<233>>}

\* a set of byte strings as Python iterates over it
SetValues == {<<>>, <<<<97>>>>, <<<<97>>, <<98>>>>, <<<<98>>, <<97>>>>}

\* head pointers: the root marker, in range, out of range
Heads == {-1, 0, MaxN - 1, MaxN}

\* uuid4() of the primary layer and of the object built on it
LayerUuid == 1

FreshUuid == 2

(***************************************************************************)
(* Building one Variable on a primary layer and writing it                 *)
(***************************************************************************)
Init ==
    /\ pc = "start"
    /\ \E n \in 0..MaxN : base_layer = PrimaryLayer(n, LayerUuid, <<>>)
    /\ arg = NoArg
    /\ obj = NoObject
    /\ offsets = <<>>
    /\ f = <<>>
    /\ wi = 0
    /\ comp = NoComponent
    /\ NoDriver

\* the constructor returned o, or raised
Constructed(a, o) ==
    /\ arg' = a
    /\ obj' = o
    /\ pc' = IF o.cls = "Failed" THEN "failed" ELSE "built"
    /\ UNCHANGED <<base_layer, offsets, f, wi, comp>>
    /\ UNCHANGED driver

NewPlainStringVariable ==
    /\ pc = "start"
    /\ \E strings \in SeqsUpTo(Strings, MaxN + 1), compressed \in BOOLEAN, comment \in Comments :
          Constructed([values |-> strings, comment |-> comment],
                      PlainStringVariable(base_layer, strings, FreshUuid, compressed, comment))

NewIndexedStringVariable ==
    /\ pc = "start"
    /\ \E strings \in SeqsUpTo(Strings, MaxN + 1), compressed \in BOOLEAN, comment \in Comments :
          Constructed([values |-> strings, comment |-> comment],
                      IndexedStringVariable(base_layer, strings, FreshUuid, compressed, comment))

NewFileIndexedStringVariable ==
    /\ pc = "start"
    /\ \E file \in SeqsUpTo(Strings, MaxN + 1), compressed \in BOOLEAN, comment \in Comments :
          Constructed([values |-> file, comment |-> comment],
                      FileIndexedStringVariable(base_layer, file, FreshUuid, compressed, comment))

NewIntegerVariable ==
    /\ pc = "start"
    /\ \E ints \in SeqsUpTo(Ints, MaxN + 1), compressed \in BOOLEAN, delta \in BOOLEAN,
          comment \in Comments :
          Constructed([values |-> ints, comment |-> comment],
                      IntegerVariable(base_layer, ints, FreshUuid, compressed, delta, comment))

NewFileIntegerVariable ==
    /\ pc = "start"
    /\ \E file \in SeqsUpTo(Ints, MaxN + 1), compressed \in BOOLEAN, delta \in BOOLEAN,
          comment \in Comments :
          \E length \in {base_layer.n, Len(file)} :
              Constructed([values |-> file, comment |-> comment],
                          FileIntegerVariable(base_layer, file, length, FreshUuid,
                                              compressed, delta, comment))

NewSetVariable ==
    /\ pc = "start"
    /\ \E sets \in SeqsUpTo(SetValues, MaxN + 1), comment \in Comments :
          Constructed([values |-> sets, comment |-> comment], SetVariable(base_layer, sets, FreshUuid, comment))

NewFileSetVariable ==
    /\ pc = "start"
    /\ \E file \in SeqsUpTo(SetValues, MaxN + 1), comment \in Comments :
          \E length \in {base_layer.n, Len(file)} :
              Constructed([values |-> file, comment |-> comment],
                          FileSetVariable(base_layer, file, length, FreshUuid, comment))

NewPointerVariable ==
    /\ pc = "start"
    /\ \E heads \in SeqsUpTo(Heads, MaxN + 1), compressed \in BOOLEAN, comment \in Comments :
          Constructed([values |-> heads, call |-> "PointerVariable", comment |-> comment],
                      PointerVariable(base_layer, heads, FreshUuid, compressed, comment))

\* Container.write_header
WriteHeader ==
    /\ pc = "built"
    /\ f' = f \o header_bytes(obj.container)
    /\ offsets' = header_offsets(obj.container.components)
    /\ wi' = 0
    /\ pc' = "writing"
    /\ UNCHANGED <<base_layer, arg, obj, comp>>
    /\ UNCHANGED driver

\* Container.write, one round of its loop: the padding, then the component;
\* bytes() of a negative count raises
WriteComponent ==
    /\ pc = "writing"
    /\ wi < Len(obj.container.components)
    /\ IF offsets[wi + 1] - Len(f) < 0
       THEN /\ pc' = "failed"
            /\ UNCHANGED <<f, wi>>
       ELSE /\ f' = f \o Zeros(offsets[wi + 1] - Len(f)) \o write(obj.container.components[wi + 1])
            /\ wi' = wi + 1
            /\ pc' = pc
    /\ UNCHANGED <<base_layer, arg, obj, offsets, comp>>
    /\ UNCHANGED driver

\* Container.write returns
WriteDone ==
    /\ pc = "writing"
    /\ wi = Len(obj.container.components)
    /\ pc' = "done"
    /\ UNCHANGED <<base_layer, arg, obj, offsets, f, wi, comp>>
    /\ UNCHANGED driver

Next ==
    \/ NewPlainStringVariable
    \/ NewIndexedStringVariable
    \/ NewFileIndexedStringVariable
    \/ NewIntegerVariable
    \/ NewFileIntegerVariable
    \/ NewSetVariable
    \/ NewFileSetVariable
    \/ NewPointerVariable
    \/ WriteHeader
    \/ WriteComponent
    \/ WriteDone

Spec == Init /\ [][Next]_vars


(***************************************************************************)
(* Reading a written container back: the header and the BOM as they are    *)
(* in the sink                                                             *)
(***************************************************************************)
RECURSIVE le_unsigned(_)
le_unsigned(b) == IF b = <<>> THEN 0 ELSE Head(b) + 256 * le_unsigned(Tail(b))

\* struct.unpack('<q', b): eight bytes, little-endian, two's complement
unpack_q(b) ==
    IF b[8] >= 128
    THEN -(1 + le_unsigned([i \in 1..8 |-> 255 - b[i]]))
    ELSE le_unsigned(b)

\* the int64 at byte offset o (0-based) of a byte string
int64_at(bytes, o) == unpack_q(SubSeq(bytes, o + 1, o + 8))

\* the offset and the size fields of the i-th BOM entry of the file
BomOffset(i) == int64_at(f, 160 + 48 * (i - 1) + 16)

BomSize(i) == int64_at(f, 160 + 48 * (i - 1) + 24)

\* the header and the BOM are in the sink
HeaderWritten == pc \in {"writing", "done"}

\* the number of components of the container being written
NumComponents == Len(obj.container.components)

\* the next multiple of 8 at or above x
RoundUp8(x) == CHOOSE y \in x..(x + 7) : y % 8 = 0

(***************************************************************************)
(* C1: for every component of a written container, the size bytelen()      *)
(* reported for the BOM equals the number of bytes its write() emits.      *)
(***************************************************************************)
C1_BytelenIsBytesWritten ==
    HeaderWritten =>
        \A i \in 1..NumComponents :
            BomSize(i) = Len(write(obj.container.components[i]))

(***************************************************************************)
(* C2: the first BOM offset is 160 + 48*C, each later one is its           *)
(* predecessor's offset plus the predecessor's reported size rounded up to *)
(* a multiple of 8; every offset is a multiple of 8 and >= 160 + 48*C, and *)
(* consecutive offsets differ by size + pad with 0 <= pad < 8.             *)
(***************************************************************************)
C2_BomOffsets ==
    HeaderWritten =>
        /\ NumComponents >= 1 => BomOffset(1) = 160 + 48 * NumComponents
        /\ \A i \in 1..NumComponents :
              /\ BomOffset(i) % 8 = 0
              /\ BomOffset(i) >= 160 + 48 * NumComponents
        /\ \A i \in 1..(NumComponents - 1) :
              /\ BomOffset(i + 1) = RoundUp8(BomOffset(i) + BomSize(i))
              /\ BomOffset(i + 1) - (BomOffset(i) + BomSize(i)) \in 0..7

\* a written container of three components with padding between two of them
C2_Witness ==
    /\ pc = "done"
    /\ NumComponents >= 3
    /\ \E i \in 1..(NumComponents - 1) : BomOffset(i + 1) - (BomOffset(i) + BomSize(i)) > 0
    /\ \E i \in 1..(NumComponents - 1) : BomOffset(i + 1) = BomOffset(i) + BomSize(i)

(***************************************************************************)
(* C3, as claimed: BOM offsets are strictly increasing, whatever the sizes *)
(* the components report.                                                  *)
(***************************************************************************)
C3_StrictlyMonotonic ==
    HeaderWritten =>
        \A i \in 1..(NumComponents - 1) : BomOffset(i) < BomOffset(i + 1)

(***************************************************************************)
(* C3, amended: BOM offsets never decrease, and a component's offset is    *)
(* strictly below its successor's whenever its reported size is positive;  *)
(* a component that reports size 0 shares its offset with its successor.   *)
(***************************************************************************)
C3_MonotonicAmended ==
    HeaderWritten =>
        \A i \in 1..(NumComponents - 1) :
            /\ BomOffset(i) <= BomOffset(i + 1)
            /\ BomSize(i) > 0 => BomOffset(i) < BomOffset(i + 1)
            /\ BomSize(i) = 0 => BomOffset(i) = BomOffset(i + 1)

\* a written container with an empty component before a non-empty one
C3_Witness ==
    /\ pc = "done"
    /\ \E i \in 1..(NumComponents - 1) : BomSize(i) = 0 /\ BomOffset(i) = BomOffset(i + 1)
    /\ \E i \in 1..(NumComponents - 1) : BomSize(i) > 0 /\ BomOffset(i) < BomOffset(i + 1)

(***************************************************************************)
(* C4: in a ZVx container the LexIDIndex records, for every lexicon id,    *)
(* exactly the ascending positions at which that lexicon entry stands in   *)
(* the input, so its frequencies sum to N.                                 *)
(***************************************************************************)
\* the ascending positions (0-based) at which x stands in s
PositionsOf(s, x) == SelectSeq([i \in 1..Len(s) |-> i - 1], LAMBDA i : s[i + 1] = x)

\* a list of ascending positions as deltas: the first raw, then the differences
Deltas(s) == [i \in 1..Len(s) |-> IF i = 1 THEN s[1] ELSE s[i] - s[i - 1]]

Constructed_ZVx ==
    /\ pc \in {"built", "writing", "done"}
    /\ obj.cls \in {"IndexedStringVariable", "FileIndexedStringVariable"}

C4_LexIDIndexHoldsPositions ==
    Constructed_ZVx =>
        LET lexicon == SplitNul(obj.container.components[1].encoded, <<>>)
            invidx == obj.container.components[4]
        IN  /\ Len(invidx.typeinfo) = Len(lexicon)
            /\ \A t \in 1..Len(lexicon) :
                  /\ invidx.typeinfo[t][1] = Len(PositionsOf(arg.values, lexicon[t]))
                  /\ invidx.postings_encoded[t]
                        = encode_varint_block(Deltas(PositionsOf(arg.values, lexicon[t])))
            /\ SumSeq([t \in 1..Len(lexicon) |-> invidx.typeinfo[t][1]]) = base_layer.n

(***************************************************************************)
(* C6: a variable builder whose input yields a number of values other than *)
(* the base layer's N fails and produces no container.                     *)
(***************************************************************************)
C6_SizeMismatchRejected ==
    pc \in {"built", "writing", "done"} => Len(arg.values) = base_layer.n


(***************************************************************************)
(* Reading varints back                                                    *)
(***************************************************************************)
RECURSIVE read_leb128(_, _, _, _)
\* the unsigned LEB128 number at index p (1-based): seven bits a byte, low
\* first; it ends where the bytes end
read_leb128(bytes, p, mult, acc) ==
    IF p > Len(bytes) THEN [value |-> acc, next |-> p]
    ELSE IF bytes[p] >= 128
    THEN read_leb128(bytes, p + 1, mult * 128, acc + (bytes[p] - 128) * mult)
    ELSE [value |-> acc + bytes[p] * mult, next |-> p + 1]

un_zigzag(u) == IF u % 2 = 0 THEN u \div 2 ELSE -((u + 1) \div 2)

RECURSIVE decode_varints(_, _, _)
\* howmany signed varints from index p on, and the index behind them
decode_varints(bytes, p, howmany) ==
    IF howmany <= 0 THEN [values |-> <<>>, next |-> p]
    ELSE LET h == read_leb128(bytes, p, 1, 0)
             t == decode_varints(bytes, h.next, howmany - 1)
         IN  [values |-> <<un_zigzag(h.value)>> \o t.values, next |-> t.next]

\* the running sums of a list of deltas
PrefixSums(s) == [i \in 1..Len(s) |-> SumSeq(SubSeq(s, 1, i))]

\* rows <<key, position>> in key order, ties in position order
IsSortedKP(s) ==
    \A i \in 1..(Len(s) - 1) :
        \/ s[i][1] < s[i + 1][1]
        \/ s[i][1] = s[i + 1][1] /\ s[i][2] <= s[i + 1][2]

\* two lists hold the same rows the same number of times
SameBag(s, t) ==
    /\ Len(s) = Len(t)
    /\ \A i \in 1..Len(s) :
          Cardinality({j \in 1..Len(s) : s[j] = s[i]})
              = Cardinality({j \in 1..Len(t) : t[j] = s[i]})

(***************************************************************************)
(* The sort indexes on their own: Index and IndexCompressed built from a   *)
(* list of pairs and written to a sink                                     *)
(***************************************************************************)
\* c times the key k
Rep(k, c) == [i \in 1..c |-> k]

\* the keys paired with their positions in the layer, ascending or descending
WithPositions(keys, ascending) ==
    [i \in 1..Len(keys) |-> <<keys[i], IF ascending THEN i - 1 ELSE Len(keys) - i>>]

\* three runs of keys: a short one, a long one, a short one
PairLists ==
    { WithPositions(Rep(k1, c1) \o Rep(k2, c2) \o Rep(k3, c3), ascending) :
          k1 \in Keys, k2 \in Keys, k3 \in Keys,
          c1 \in 0..MaxHead, c2 \in 0..MaxRun, c3 \in 0..MaxTail,
          ascending \in BOOLEAN }

InitIndex ==
    /\ pc = "start"
    /\ base_layer = NoObject
    /\ obj = NoObject
    /\ arg \in {[values |-> p] : p \in PairLists}
    /\ offsets = <<>>
    /\ f = <<>>
    /\ wi = 0
    /\ comp = NoComponent
    /\ NoDriver

BuiltComponent(a, c) ==
    /\ arg' = a
    /\ comp' = c
    /\ pc' = IF IsError(c) THEN "failed" ELSE "built"
    /\ UNCHANGED <<base_layer, obj, offsets, f, wi>>
    /\ UNCHANGED driver

NewIndex ==
    /\ pc = "start"
    /\ \E sorted \in BOOLEAN :
          BuiltComponent([values |-> arg.values, sorted |-> sorted],
                         Index(arg.values, "IntSort", Len(arg.values), sorted))

NewIndexCompressed ==
    /\ pc = "start"
    /\ \E sorted \in BOOLEAN :
          BuiltComponent([values |-> arg.values, sorted |-> sorted],
                         IndexCompressed(arg.values, "IntSort", Len(arg.values), sorted))

\* Component.write(f) on an empty sink
WriteBuilt ==
    /\ pc = "built"
    /\ f' = write(comp)
    /\ pc' = "done"
    /\ UNCHANGED <<base_layer, arg, obj, offsets, wi, comp>>
    /\ UNCHANGED driver

NextIndex == NewIndex \/ NewIndexCompressed \/ WriteBuilt

SpecIndex == InitIndex /\ [][NextIndex]_vars

\* the pairs of a written Index
IndexPairs == [i \in 1..(Len(f) \div 16) |-> <<int64_at(f, 16 * (i - 1)), int64_at(f, 16 * (i - 1) + 8)>>]

\* the header fields of a written IndexCompressed: r, the number of sync
\* blocks, and the sync entry of block b
ic_r == int64_at(f, 0)

ic_mr == (ic_r + 15) \div 16

ic_sync_key(b) == int64_at(f, 8 + 16 * (b - 1))

ic_sync_offset(b) == int64_at(f, 8 + 16 * (b - 1) + 8)

\* block b of a written IndexCompressed, read as the format is read: the
\* excess over sixteen, sixteen key deltas, the position deltas; the overflow
\* items take the sixteenth key, a short final block keeps its regular items
ic_block(b) ==
    LET start == 8 + 16 * ic_mr + ic_sync_offset(b) + 1
        e == decode_varints(f, start, 1)
        ks == decode_varints(f, e.next, 16)
        ps == decode_varints(f, ks.next, 16 + e.values[1])
        keys == PrefixSums(ks.values)
        positions == PrefixSums(ps.values)
        regular == IF b < ic_mr THEN 16 ELSE ic_r - 16 * (ic_mr - 1)
        kept == IF regular < 16 THEN regular ELSE 16 + e.values[1]
    IN  [pairs |-> [i \in 1..kept |-> <<keys[Min(i, 16)], positions[i]>>],
         first_key |-> keys[1],
         next |-> ps.next]

\* the pairs of a written IndexCompressed, block after block
ic_pairs == Concat([b \in 1..ic_mr |-> ic_block(b).pairs])

WrittenIndex == pc = "done" /\ comp.ctype = "Index"

WrittenIndexCompressed == pc = "done" /\ comp.ctype = "IndexCompressed"

(***************************************************************************)
(* C8: in an IndexCompressed no key is shared across a block boundary: the *)
(* last key of a block differs from the first key of the next, every block *)
(* but the last holds at least sixteen pairs, and what a block holds past  *)
(* its sixteenth pair has the sixteenth pair's key.                        *)
(***************************************************************************)
C8_BlockInvariant ==
    WrittenIndexCompressed =>
        LET blocks == IndexCompressed_locals(arg.values, arg.sorted).blocks
        IN  /\ Len(blocks) = ic_mr
            /\ \A b \in 1..(Len(blocks) - 1) :
                  /\ Len(blocks[b]) >= 16
                  /\ Last(blocks[b])[1] # blocks[b + 1][1][1]
            /\ \A b \in 1..Len(blocks) :
                  /\ Len(blocks[b]) = Len(ic_block(b).pairs) + (IF b = Len(blocks) THEN 16 * ic_mr - ic_r ELSE 0)
                  /\ \A i \in 17..Len(blocks[b]) : blocks[b][i][1] = blocks[b][16][1]

\* two blocks, the first longer than sixteen, with different keys in it
C8_Witness ==
    /\ WrittenIndexCompressed
    /\ ic_mr = 2
    /\ Len(ic_block(1).pairs) > 16
    /\ ic_block(1).pairs[1][1] # ic_block(1).pairs[16][1]

StoredPairs == IF comp.ctype = "Index" THEN IndexPairs ELSE ic_pairs

C10_SortContract ==
    (WrittenIndex \/ WrittenIndexCompressed) =>
        IF arg.sorted
        THEN StoredPairs = arg.values
        ELSE IsSortedKP(StoredPairs) /\ SameBag(StoredPairs, arg.values)

\* an Index of pairs supplied with keys and tied positions out of order
C10_Witness ==
    /\ WrittenIndex
    /\ ~arg.sorted
    /\ \E i \in 1..(Len(arg.values) - 1) : arg.values[i][1] > arg.values[i + 1][1]
    /\ \E i \in 1..(Len(arg.values) - 1) :
          arg.values[i][1] = arg.values[i + 1][1] /\ arg.values[i][2] > arg.values[i + 1][2]
    /\ StoredPairs # arg.values


(***************************************************************************)
(* The inverted index on its own: InvertedIndex built from V types and one *)
(* list of type ids per position, and written to a sink                    *)
(***************************************************************************)
\* the lists of at most two type ids below v, no id twice, in either order
IdLists(v) ==
    {<<>>} \cup {<<a>> : a \in 0..(v - 1)}
           \cup {<<p[1], p[2]>> : p \in {q \in (0..(v - 1)) \X (0..(v - 1)) : q[1] # q[2]}}

\* the names of v types
TypeNames(v) == [i \in 1..v |-> <<96 + i>>]

InitInv ==
    /\ pc = "start"
    /\ base_layer = NoObject
    /\ obj = NoObject
    /\ \E v \in 0..MaxTypes : \E gap \in {0, MaxGap} :
         \E lists \in SeqsUpTo(IdLists(v), MaxPos) :
            arg = [types |-> TypeNames(v), values |-> [i \in 1..gap |-> <<>>] \o lists]
    /\ offsets = <<>>
    /\ f = <<>>
    /\ wi = 0
    /\ comp = NoComponent
    /\ NoDriver

NewInvertedIndex ==
    /\ pc = "start"
    /\ BuiltComponent(arg, InvertedIndex(arg.types, arg.values, "IDSetIndex", Len(arg.types)))

NextInv == NewInvertedIndex \/ WriteBuilt

SpecInv == InitInv /\ [][NextInv]_vars

WrittenInvertedIndex == pc = "done" /\ comp.ctype = "InvertedIndex"

\* the TypeInfo entry of type t (1-based) in the written index
ti_frequency(t) == int64_at(f, 16 * (t - 1))

ti_offset(t) == int64_at(f, 16 * (t - 1) + 8)

\* the postings list of type t read back from the written index: as many
\* varints as the frequency says, from the payload offset on
ti_postings(t) ==
    LET start == 16 * Len(arg.types) + ti_offset(t) + 1
        d == decode_varints(f, start, ti_frequency(t))
    IN  [positions |-> PrefixSums(d.values), bytes |-> d.next - start]

\* the ascending positions (0-based) whose id list holds the id x
PositionsWith(lists, x) ==
    SelectSeq([i \in 1..Len(lists) |-> i - 1],
              LAMBDA i : \E j \in 1..Len(lists[i + 1]) : lists[i + 1][j] = x)

(***************************************************************************)
(* C5: for an InvertedIndex built from id lists that hold no id twice,     *)
(* each type's postings list is the strictly ascending list of the         *)
(* positions at which the type occurs, its frequency is the length of that *)
(* list, its payload offset is the sum of the encoded lengths of the lists *)
(* before it, and the frequencies sum to the number of (position, id)      *)
(* occurrences of the input.                                               *)
(***************************************************************************)
C5_InvertedIndex ==
    WrittenInvertedIndex =>
        LET V == Len(arg.types)
        IN  /\ \A t \in 1..V :
                  LET pl == ti_postings(t).positions
                  IN  /\ pl = PositionsWith(arg.values, t - 1)
                      /\ \A i \in 1..(Len(pl) - 1) : pl[i] < pl[i + 1]
                      /\ ti_frequency(t) = Len(pl)
                      /\ ti_offset(t) = SumSeq([u \in 1..(t - 1) |-> ti_postings(u).bytes])
            /\ SumSeq([t \in 1..V |-> ti_frequency(t)])
                  = SumSeq([i \in 1..Len(arg.values) |-> Len(arg.values[i])])
            /\ Len(f) = 16 * V + SumSeq([t \in 1..V |-> ti_postings(t).bytes])

\* three types, the first at several positions, a posting of two bytes
C5_Witness ==
    /\ WrittenInvertedIndex
    /\ Len(arg.types) = 3
    /\ ti_frequency(1) >= 2
    /\ ti_offset(2) > ti_frequency(1)
    /\ ti_frequency(3) >= 1
    /\ \E i \in 1..Len(arg.values) : Len(arg.values[i]) = 2 /\ arg.values[i][1] > arg.values[i][2]


(***************************************************************************)
(* The driver (scripts/vrt_to_zig.py) run with one structural attribute    *)
(* requested: it reads the VRT input line by line, then writes the primary *)
(* layer and the segmentation layer of the attribute                       *)
(***************************************************************************)
\* the tags of the input: "s" is requested with -s, "x" is not
Tags == {"s", "x"}

InitDriver ==
    /\ pc = "reading"
    /\ base_layer = NoObject
    /\ obj = NoObject
    /\ \E uncompressed \in BOOLEAN :
          arg = [values |-> <<>>, s_attrs |-> {"s"}, uncompressed |-> uncompressed]
    /\ offsets = <<>>
    /\ f = <<>>
    /\ wi = 0
    /\ comp = NoComponent
    /\ cpos = 0
    /\ stack = <<>>
    /\ spans = <<>>
    /\ parser_state = [is_closing_tag |-> FALSE, tagname |-> ""]
    /\ elements = <<"xml-fix-pseudo-start">>
    /\ nread = 0
    /\ files = <<>>

\* a line that does not start with "<" and is not blank
ReadToken ==
    /\ pc = "reading"
    /\ nread < MaxLines
    /\ cpos' = cpos + 1
    /\ nread' = nread + 1
    /\ UNCHANGED <<pc, base_layer, arg, obj, offsets, f, wi, comp>>
    /\ UNCHANGED <<stack, spans, parser_state, elements, files>>

\* a blank line
ReadBlank ==
    /\ pc = "reading"
    /\ nread < MaxLines
    /\ nread' = nread + 1
    /\ UNCHANGED <<pc, base_layer, arg, obj, offsets, f, wi, comp>>
    /\ UNCHANGED <<cpos, stack, spans, parser_state, elements, files>>

\* a line "<tag>": start_element, then the tag is put on the stack
ReadStartTag ==
    /\ pc = "reading"
    /\ nread < MaxLines
    /\ \E tagname \in Tags :
          /\ elements' = Append(elements, tagname)
          /\ parser_state' = [is_closing_tag |-> FALSE, tagname |-> tagname]
          /\ stack' = IF tagname \in arg.s_attrs
                      THEN Append(stack, <<cpos, tagname>>)
                      ELSE stack
    /\ nread' = nread + 1
    /\ UNCHANGED <<pc, base_layer, arg, obj, offsets, f, wi, comp>>
    /\ UNCHANGED <<cpos, spans, files>>

\* spans[tagname].append((startpos, cpos)), the list made when it is not there
with_span(tagname, startpos, endpos) ==
    [t \in DOMAIN spans \cup {tagname} |->
        IF t = tagname
        THEN (IF t \in DOMAIN spans THEN spans[t] ELSE <<>>) \o <<<<startpos, endpos>>>>
        ELSE spans[t]]

\* a line "</tag>": the parser raises when the tag does not close the open
\* element; else end_element, and the tag on top of the stack becomes a span
ReadEndTag ==
    /\ pc = "reading"
    /\ nread < MaxLines
    /\ \E tagname \in Tags :
          IF Last(elements) # tagname
          THEN /\ pc' = "failed"
               /\ UNCHANGED <<elements, parser_state, stack, spans>>
          ELSE /\ pc' = pc
               /\ elements' = Front(elements)
               /\ parser_state' = [is_closing_tag |-> TRUE, tagname |-> tagname]
               /\ IF tagname \in arg.s_attrs /\ Len(stack) > 0 /\ Last(stack)[2] = tagname
                  THEN /\ stack' = Front(stack)
                       /\ spans' = with_span(tagname, Last(stack)[1], cpos)
                  ELSE UNCHANGED <<stack, spans>>
    /\ nread' = nread + 1
    /\ UNCHANGED <<base_layer, arg, obj, offsets, f, wi, comp>>
    /\ UNCHANGED <<cpos, files>>

\* the end of the input: clen = cpos, the primary layer is built and written
\* to the file "primary"
BuildPrimaryLayer ==
    /\ pc = "reading"
    /\ LET primary_layer == PrimaryLayer(cpos, LayerUuid, ascii("corpus.vrt"))
       IN  /\ base_layer' = primary_layer
           /\ files' = Append(files, <<"primary", header_bytes(primary_layer.container)>>)
    /\ pc' = "primary"
    /\ UNCHANGED <<arg, obj, offsets, f, wi, comp>>
    /\ UNCHANGED <<cpos, stack, spans, parser_state, elements, nread>>

\* "for attr in s_attrs": spans[attr] raises KeyError when no span of the
\* attribute was closed; else the layer is built over the spans
BuildSegmentationLayer ==
    /\ pc = "primary"
    /\ \E attr \in arg.s_attrs :
          IF attr \notin DOMAIN spans
          THEN /\ pc' = "failed"
               /\ obj' = obj
          ELSE LET layer == SegmentationLayer(base_layer, Len(spans[attr]), spans[attr],
                                              FreshUuid, ~arg.uncompressed, ascii("s-attr s"))
               IN  /\ obj' = layer
                   /\ pc' = IF layer.cls = "Failed" THEN "failed" ELSE "built"
    /\ UNCHANGED <<base_layer, arg, offsets, f, wi, comp>>
    /\ UNCHANGED driver

NextDriver ==
    \/ ReadToken
    \/ ReadBlank
    \/ ReadStartTag
    \/ ReadEndTag
    \/ BuildPrimaryLayer
    \/ BuildSegmentationLayer
    \/ WriteHeader
    \/ WriteComponent
    \/ WriteDone

SpecDriver == InitDriver /\ [][NextDriver]_vars

\* the rows <<start, end>> of the RangeStream of the layer being written
Ranges == obj.container.components[1].data

\* the base1 UUID field of the header in the sink
Base1Uuid == SubSeq(f, 33, 48)

(***************************************************************************)
(* C7: every SegmentationLayer container the driver writes holds ranges    *)
(* with 0 <= start < end, each range ending at or before the start of the  *)
(* next, and carries the primary layer's UUID, not null, as its base1.     *)
(***************************************************************************)
C7_SegmentationRanges ==
    (HeaderWritten /\ obj.cls = "SegmentationLayer") =>
        /\ Len(Ranges) = obj.n
        /\ \A i \in 1..Len(Ranges) : 0 <= Ranges[i][1] /\ Ranges[i][1] < Ranges[i][2]
        /\ \A i \in 1..(Len(Ranges) - 1) : Ranges[i][2] <= Ranges[i + 1][1]
        /\ Base1Uuid = uuid_bytes(base_layer.uuid)
        /\ Base1Uuid # Zeros(16)


(***************************************************************************)
(* C11: a StringVector of N strings is written as N+1 offsets followed by  *)
(* the N NUL-terminated strings; offset[0] = 0, offset[i] is where string  *)
(* i starts in the payload, the offsets do not decrease, and offset[N] is  *)
(* the length of the payload.                                              *)
(***************************************************************************)
\* the bytes of component i of the written container, as the BOM locates them
ComponentBytes(i) == SubSeq(f, BomOffset(i) + 1, BomOffset(i) + Len(write(obj.container.components[i])))

\* the first parameter of the i-th BOM entry
BomParam1(i) == int64_at(f, 160 + 48 * (i - 1) + 32)

\* the second parameter of the i-th BOM entry
BomParam2(i) == int64_at(f, 160 + 48 * (i - 1) + 40)

\* the lengths, each with its NUL, of the strings of a payload
CellLengths(payload) ==
    LET strings == SplitNul(payload, <<>>)
    IN  [i \in 1..Len(strings) |-> Len(strings[i]) + 1]

C11_StringVectorOffsets ==
    pc = "done" =>
        \A c \in 1..NumComponents :
            obj.container.components[c].ctype = "StringVector" =>
                LET image == ComponentBytes(c)
                    N == BomParam1(c)
                    payload == SubSeq(image, 8 * (N + 1) + 1, Len(image))
                    offset == [i \in 0..N |-> int64_at(image, 8 * i)]
                    cells == CellLengths(payload)
                IN  /\ Len(image) >= 8 * (N + 1)
                    /\ Len(cells) = N
                    /\ SumSeq(cells) = Len(payload)
                    /\ offset[0] = 0
                    /\ \A i \in 1..N : offset[i] = offset[i - 1] + cells[i]
                    /\ \A i \in 1..N : offset[i - 1] <= offset[i]
                    /\ offset[N] = Len(payload)

\* C11 but for the last offset: what the code does write
C11_AllButLastOffset ==
    pc = "done" =>
        \A c \in 1..NumComponents :
            obj.container.components[c].ctype = "StringVector" =>
                LET image == ComponentBytes(c)
                    N == BomParam1(c)
                    payload == SubSeq(image, 8 * (N + 1) + 1, Len(image))
                    offset == [i \in 0..N |-> int64_at(image, 8 * i)]
                    cells == CellLengths(payload)
                IN  /\ Len(cells) = N
                    /\ SumSeq(cells) = Len(payload)
                    /\ N >= 1 => offset[0] = 0
                    /\ \A i \in 1..(N - 1) : offset[i] = offset[i - 1] + cells[i]
                    /\ offset[N] = Len(payload) + 1


(***************************************************************************)
(* The vectors on their own: Vector, VectorComp and VectorDelta built from *)
(* n rows of d values, handed over row by row, and written to a sink       *)
(***************************************************************************)
\* the k-th value (1-based) of a list of values of one of four kinds
ValueOf(kind, k) ==
    CASE kind = "zero" -> 0
      [] kind = "up" -> k
      [] kind = "steep" -> 70 * k
      [] kind = "mixed" -> IF k % 2 = 1 THEN -k ELSE 65 * k

InitVector ==
    /\ pc = "start"
    /\ base_layer = NoObject
    /\ obj = NoObject
    /\ \E n \in 0..MaxRows, d \in 1..MaxD, kind \in {"zero", "up", "steep", "mixed"} :
          arg = [values |-> [k \in 1..(n * d) |-> ValueOf(kind, k)], n |-> n, d |-> d]
    /\ offsets = <<>>
    /\ f = <<>>
    /\ wi = 0
    /\ comp = NoComponent
    /\ NoDriver

NewVector ==
    /\ pc = "start"
    /\ BuiltComponent(arg, Vector(arg.values, "IntStream", arg.n, arg.d))

NewVectorComp ==
    /\ pc = "start"
    /\ BuiltComponent(arg, VectorComp(arg.values, "IntStream", arg.n, arg.d))

NewVectorDelta ==
    /\ pc = "start"
    /\ BuiltComponent(arg, VectorDelta(arg.values, "IntStream", arg.n, arg.d))

NextVector == NewVector \/ NewVectorComp \/ NewVectorDelta \/ WriteBuilt

SpecVector == InitVector /\ [][NextVector]_vars

WrittenVector == pc = "done" /\ comp.ctype = "Vector"

WrittenCompressedVector == pc = "done" /\ comp.ctype \in {"VectorComp", "VectorDelta"}

\* the number of blocks of sixteen rows that n rows take
NumBlocks(n) == (n + 15) \div 16

\* entry i (0-based) of the sync table at the head of the written component
vec_sync(i) == int64_at(f, 8 * i)

\* the length of block i (0-based) of a written compressed vector of m blocks
\* of d columns: d times sixteen varints, read from where sync[i] points
vec_block_len(i, m, d) ==
    LET start == 8 * m + vec_sync(i) + 1
    IN  decode_varints(f, start, 16 * d).next - start

(***************************************************************************)
(* C12, as claimed: bytelen is 8*n*d for a Vector, and for VectorComp and  *)
(* VectorDelta it is sync[m-1] + len(last_block).                          *)
(***************************************************************************)
C12_BytelenFormula ==
    /\ WrittenVector => bytelen(comp) = 8 * arg.n * arg.d
    /\ WrittenCompressedVector =>
          LET m == NumBlocks(arg.n)
          IN  bytelen(comp) = vec_sync(m - 1) + vec_block_len(m - 1, m, arg.d)

(***************************************************************************)
(* C12, amended: bytelen is 8*n*d for a Vector, and for VectorComp and     *)
(* VectorDelta it is 8*m + sync[m-1] + len(last_block): the sync table of  *)
(* m entries, then the blocks, the sync offsets counting from the first    *)
(* block.                                                                  *)
(***************************************************************************)
C12_BytelenFormulaAmended ==
    /\ WrittenVector => bytelen(comp) = 8 * arg.n * arg.d /\ Len(f) = 8 * arg.n * arg.d
    /\ WrittenCompressedVector =>
          LET m == NumBlocks(arg.n)
          IN  /\ bytelen(comp) = 8 * m + vec_sync(m - 1) + vec_block_len(m - 1, m, arg.d)
              /\ Len(f) = bytelen(comp)

\* a compressed vector of three blocks of two columns, and varints of two bytes
C12_Witness ==
    /\ WrittenCompressedVector
    /\ NumBlocks(arg.n) = 3
    /\ arg.d = 2
    /\ vec_block_len(0, 3, 2) > 32

(***************************************************************************)
(* C13: Vector.write emits the n*d values of an input handed over row by   *)
(* row in that order: the d columns of position i together, the positions  *)
(* ascending.                                                              *)
(***************************************************************************)
C13_VectorRowMajor ==
    WrittenVector =>
        /\ Len(f) = 8 * arg.n * arg.d
        /\ \A i \in 0..(arg.n - 1) : \A j \in 0..(arg.d - 1) :
              int64_at(f, 8 * (i * arg.d + j)) = arg.values[i * arg.d + j + 1]

(***************************************************************************)
(* C14: a VectorComp or VectorDelta of N >= 1 rows has m = ceil(N/16)      *)
(* blocks and a sync table of m entries; sync[0] = 0 and sync[i+1] -       *)
(* sync[i] is the length of block i, so that block i starts at sync[i].    *)
(***************************************************************************)
C14_SyncTable ==
    WrittenCompressedVector =>
        LET m == NumBlocks(arg.n)
        IN  /\ arg.n >= 1
            /\ vec_sync(0) = 0
            /\ \A i \in 0..(m - 2) : vec_sync(i + 1) - vec_sync(i) = vec_block_len(i, m, arg.d)
            /\ 8 * m + vec_sync(m - 1) + vec_block_len(m - 1, m, arg.d) = Len(f)

\* three blocks of different lengths
C14_Witness ==
    /\ WrittenCompressedVector
    /\ NumBlocks(arg.n) = 3
    /\ vec_block_len(0, 3, arg.d) # vec_block_len(1, 3, arg.d)
    /\ vec_sync(2) = vec_block_len(0, 3, arg.d) + vec_block_len(1, 3, arg.d)


(***************************************************************************)
(* The Set on its own: built from n sets of integers and written to a sink *)
(***************************************************************************)
\* the k-th set (1-based) of a list of sets of one of four kinds
SetOf(kind, k) ==
    CASE kind = "empty" -> <<>>
      [] kind = "single" -> <<k>>
      [] kind = "pair" -> <<0, 70 * k>>
      [] kind = "mixed" -> IF k % 3 = 0 THEN <<>> ELSE IF k % 3 = 1 THEN <<k>> ELSE <<1, 64, k>>

InitSet ==
    /\ pc = "start"
    /\ base_layer = NoObject
    /\ obj = NoObject
    /\ \E n \in 0..MaxSets, kind \in {"empty", "single", "pair", "mixed"} :
          arg = [values |-> [k \in 1..n |-> SetOf(kind, k)], n |-> n]
    /\ offsets = <<>>
    /\ f = <<>>
    /\ wi = 0
    /\ comp = NoComponent
    /\ NoDriver

NewSet ==
    /\ pc = "start"
    /\ BuiltComponent(arg, Set(arg.values, "IDSetStream", arg.n, 1))

NextSet == NewSet \/ WriteBuilt

SpecSet == InitSet /\ [][NextSet]_vars

WrittenSet == pc = "done" /\ comp.ctype = "Set"

\* block i (0-based) of a written Set, read from the byte offset start (0-based,
\* from the start of the component): sixteen offset deltas, sixteen lengths,
\* then as many items as the lengths say
set_block(start) ==
    LET os == decode_varints(f, start + 1, 16)
        ls == decode_varints(f, os.next, 16)
        items == decode_varints(f, ls.next, SumSeq(ls.values))
    IN  [offsets |-> PrefixSums(os.values), lengths |-> ls.values,
         items_start |-> ls.next, next |-> items.next - 1]

\* the byte offset, within the items of the block, of the first item of slot k
set_item_offset(b, k) ==
    decode_varints(f, b.items_start, SumSeq(SubSeq(b.lengths, 1, k - 1))).next - b.items_start

\* what C15 says of the m blocks of a Set of n sets whose sync vector is read
\* as m entries
SetLayout(n, m) ==
    /\ Len(f) >= 8 * m
    /\ m >= 1 => vec_sync(0) = 8 * m
    /\ \A i \in 0..(m - 1) :
          LET b == set_block(vec_sync(i))
              used == IF i < m - 1 THEN 16 ELSE n - 16 * (m - 1)
          IN  /\ b.next = (IF i < m - 1 THEN vec_sync(i + 1) ELSE Len(f))
              /\ Len(b.offsets) = 16 /\ Len(b.lengths) = 16
              /\ \A k \in 1..used :
                    /\ b.lengths[k] = Len(arg.values[16 * i + k])
                    /\ b.offsets[k] = set_item_offset(b, k)
              /\ \A k \in (used + 1)..16 : b.offsets[k] = -1 /\ b.lengths[k] = 0

(***************************************************************************)
(* C15: a Set of n >= 0 sets in m = ceil(n/16) blocks is written as a sync *)
(* vector of exactly m entries and the blocks; sync[0] = 8*m and sync[i]   *)
(* is the offset of block i from the start of the component; every block   *)
(* has sixteen offset slots and sixteen length slots, the unused ones of a *)
(* short final block holding offset -1 and length 0.                       *)
(***************************************************************************)
C15_SetSyncAndPadding ==
    WrittenSet =>
        /\ SetLayout(arg.n, NumBlocks(arg.n))
        /\ NumBlocks(arg.n) = 0 => Len(f) = 0

\* C15 for n >= 1: what holds of the code
C15_NonEmptySets ==
    (WrittenSet /\ arg.n >= 1) => SetLayout(arg.n, NumBlocks(arg.n))

(***************************************************************************)
(* The Lexicon and the LexIDStream of a written ZVx container              *)
(***************************************************************************)
\* a ZVx container is in the sink
WrittenZVx ==
    /\ pc = "done"
    /\ obj.cls \in {"IndexedStringVariable", "FileIndexedStringVariable"}

\* the strings of the Lexicon as they are in the file: the payload behind the
\* V + 1 offsets of the first component
FileLexicon ==
    LET image == ComponentBytes(1)
        V == BomParam1(1)
    IN  SplitNul(SubSeq(image, 8 * (V + 1) + 1, Len(image)), <<>>)

\* the LexIDStream as it is in the file: n int64 when the third component is
\* stored raw, else the first n of the varints of its blocks of sixteen
FileLexIDStream ==
    LET image == ComponentBytes(3)
        n == BomParam1(3)
        m == NumBlocks(n)
    IN  IF obj.container.components[3].mode = 0
        THEN IF Len(image) = 8 * n THEN [i \in 1..n |-> int64_at(image, 8 * (i - 1))]
             ELSE <<>>
        ELSE SubSeq(decode_varints(image, 8 * m + 1, BLOCKSIZE * m).values, 1, n)

\* the position of the first occurrence of x in s
FirstSeen(s, x) == CHOOSE i \in 1..Len(s) : s[i] = x /\ \A k \in 1..(i - 1) : s[k] # x

(***************************************************************************)
(* C16: in every written ZVx container the Lexicon lists each distinct     *)
(* string of the input exactly once, by descending frequency with ties in  *)
(* the order of first occurrence, and the LexIDStream has exactly N        *)
(* entries, entry i being the lexicon index of the string at position i.   *)
(***************************************************************************)
C16_LexiconAndLexIDStream ==
    WrittenZVx =>
        LET lexicon == FileLexicon
            stream == FileLexIDStream
            input == arg.values
        IN  /\ BomParam1(1) = Len(lexicon)
            /\ \A i \in 1..Len(input) : \E t \in 1..Len(lexicon) : lexicon[t] = input[i]
            /\ \A t \in 1..Len(lexicon) : \E i \in 1..Len(input) : lexicon[t] = input[i]
            /\ \A t, u \in 1..Len(lexicon) : t # u => lexicon[t] # lexicon[u]
            /\ \A t, u \in 1..Len(lexicon) :
                  t < u =>
                     \/ count(input, lexicon[t]) > count(input, lexicon[u])
                     \/ /\ count(input, lexicon[t]) = count(input, lexicon[u])
                        /\ FirstSeen(input, lexicon[t]) < FirstSeen(input, lexicon[u])
            /\ Len(input) = base_layer.n
            /\ BomParam1(3) = base_layer.n
            /\ Len(stream) = base_layer.n
            /\ \A i \in 1..Len(stream) : lexicon[stream[i] + 1] = input[i]

\* a written ZVx container, its LexIDStream compressed, whose most frequent
\* string is not the first of the input
C16_Witness ==
    /\ WrittenZVx
    /\ obj.container.components[3].mode = 1
    /\ Len(arg.values) = 3
    /\ FileLexicon[1] # arg.values[1]
    /\ Len(FileLexicon) = 2
    /\ FileLexIDStream = <<1, 0, 0>>

(***************************************************************************)
(* Building a PointerVariable                                              *)
(***************************************************************************)
\* exactly N heads, each of them -1 or a position of the base layer
ValidHeads(heads, N) ==
    /\ Len(heads) = N
    /\ \A i \in 1..Len(heads) : heads[i] = -1 \/ (0 <= heads[i] /\ heads[i] <= N - 1)

\* PointerVariable has been called over a base layer of at least one position
PointerVariableCalled ==
    /\ pc # "start"
    /\ "call" \in DOMAIN arg
    /\ arg.call = "PointerVariable"
    /\ base_layer.n >= 1

\* what C17 says of a call that has returned or raised
PointerVariableOutcome ==
    /\ obj.cls = "PointerVariable" <=> ValidHeads(arg.values, base_layer.n)
    /\ (base_layer.n = 3 /\ arg.values = <<0, 2, -1>>) => obj.cls = "PointerVariable"
    /\ (base_layer.n = 3 /\ arg.values = <<0, 3, -1>>) =>
          obj = Failed("Head pointers must fall into the range [-1, N-1]")
    /\ obj.cls # "PointerVariable" => (obj.cls = "Failed" /\ pc = "failed" /\ f = <<>>)

(***************************************************************************)
(* C17: building a PointerVariable over a base layer of N >= 1 positions   *)
(* succeeds if and only if exactly N heads are given and every head is -1  *)
(* or in 0..N-1; heads 0, 2, -1 are accepted for N = 3, heads 0, 3, -1     *)
(* are rejected for N = 3 with the pointer error, and a rejection leaves   *)
(* no container behind.                                                    *)
(***************************************************************************)
C17_PointerVariableAccepts == PointerVariableCalled => PointerVariableOutcome

\* C17 for a comment the container accepts: the stored comment, the caller's
\* in UTF-8 followed by the attribution, has fewer than 72 bytes
C17_PointerVariableAcceptsAmended ==
    (PointerVariableCalled /\ Len(encode_utf8(arg.comment) \o ascii(" encoded using ZiggyPy")) < 72)
        => PointerVariableOutcome

\* heads 0, 3, -1 over three positions have been rejected by the range check
C17_Witness ==
    /\ PointerVariableCalled
    /\ pc = "failed"
    /\ base_layer.n = 3
    /\ arg.values = <<0, 3, -1>>
    /\ arg.comment = <<>>
    /\ obj = Failed("Head pointers must fall into the range [-1, N-1]")
    /\ f = <<>>

\* heads 0, 2, -1 over three positions have been accepted and written
C17_AcceptedWitness ==
    /\ PointerVariableCalled
    /\ pc = "done"
    /\ base_layer.n = 3
    /\ arg.values = <<0, 2, -1>>
    /\ obj.cls = "PointerVariable"

(***************************************************************************)
(* The comment of a container                                              *)
(***************************************************************************)
\* the comment as Container stores it: the caller's in UTF-8, then the attribution
StoredComment == encode_utf8(arg.comment) \o ascii(" encoded using ZiggyPy")

\* the constructor of a variable has returned or raised
VariableCalled == pc # "start"

(***************************************************************************)
(* C18: constructing a Container fails with the comment error exactly when *)
(* the stored comment (the caller's comment in UTF-8 followed by the       *)
(* attribution) has 72 bytes or more; otherwise the 72 bytes at offset 88  *)
(* of the header are the stored comment followed by NUL bytes.  On failure *)
(* nothing is written.                                                     *)
(***************************************************************************)
C18_CommentTooLong ==
    VariableCalled =>
        /\ obj = Failed("Comment exceeding maximum length") =>
              (Len(StoredComment) >= 72 /\ pc = "failed" /\ f = <<>>)
        /\ Len(StoredComment) >= 72 => (obj.cls = "Failed" /\ pc = "failed" /\ f = <<>>)
        /\ (Len(StoredComment) < 72 /\ obj.cls # "Failed") =>
              obj.container.comment = StoredComment
        /\ HeaderWritten =>
              /\ Len(StoredComment) < 72
              /\ Len(f) >= 160
              /\ SubSeq(f, 89, 160) = StoredComment \o Zeros(72 - Len(StoredComment))

\* a comment of 49 characters and 50 bytes has been refused: stored, it has 72 bytes
C18_Witness ==
    /\ VariableCalled
    /\ Len(arg.comment) = 49
    /\ Len(StoredComment) = 72
    /\ obj = Failed("Comment exceeding maximum length")
    /\ f = <<>>

\* a comment of 49 bytes has been written: stored, it has 71 bytes, and one NUL follows
C18_LongestCommentWitness ==
    /\ pc = "done"
    /\ Len(StoredComment) = 71
    /\ f[159] # 0
    /\ f[160] = 0

(***************************************************************************)
(* The header and the BOM of a container file                              *)
(***************************************************************************)
\* the type triplet and the number of components of the family a class builds
FamilyOf(cls) ==
    CASE cls = "PrimaryLayer" -> [triplet |-> <<90, 76, 112>>, components |-> 0]
      [] cls = "SegmentationLayer" -> [triplet |-> <<90, 76, 115>>, components |-> 3]
      [] cls = "PlainStringVariable" -> [triplet |-> <<90, 86, 99>>, components |-> 3]
      [] cls \in {"IndexedStringVariable", "FileIndexedStringVariable"}
            -> [triplet |-> <<90, 86, 120>>, components |-> 4]
      [] cls \in {"IntegerVariable", "FileIntegerVariable"}
            -> [triplet |-> <<90, 86, 105>>, components |-> 2]
      [] cls \in {"SetVariable", "FileSetVariable"}
            -> [triplet |-> <<90, 86, 115>>, components |-> 4]
      [] cls = "PointerVariable" -> [triplet |-> <<90, 86, 112>>, components |-> 2]

\* bytes begins with the header of a container of the family and C BOM entries:
\* each entry is 48 bytes, and the first component, if any, comes right behind
HeaderLayout(bytes, fam, C) ==
    /\ Len(bytes) >= 160 + 48 * C
    /\ SubSeq(bytes, 1, 8) = <<90, 105, 103, 103, 117, 114, 97, 116>>
    /\ SubSeq(bytes, 12, 14) = fam.triplet
    /\ bytes[15] = C
    /\ bytes[16] = C
    /\ C = fam.components
    /\ \A i \in 1..C :
          /\ int64_at(bytes, 160 + 48 * (i - 1) + 16) >= 160 + 48 * C
          /\ i = 1 => int64_at(bytes, 160 + 48 * (i - 1) + 16) = 160 + 48 * C
          /\ i > 1 => int64_at(bytes, 160 + 48 * (i - 1) + 16)
                         >= int64_at(bytes, 160 + 48 * (i - 2) + 16)

C19_PrimaryLayerHeader ==
    \A k \in 1..Len(files) :
        files[k][1] = "primary" =>
            /\ HeaderLayout(files[k][2], FamilyOf("PrimaryLayer"), 0)
            /\ Len(files[k][2]) = 160

(***************************************************************************)
(* SFileIter (ziggypy/util.py) over an open VRT file.  Of the variables of *)
(* the driver, nread is the position of the file, cpos is self.line, stack *)
(* is self.stack, parser_state is self.parser_state, elements is the state *)
(* of the expat parser, and spans keeps, pass by pass, what __next__ has   *)
(* returned.                                                               *)
(***************************************************************************)
\* the lines a VRT file is made of: a token, a blank line, the start and the
\* end tag of the requested element and of another one
VrtLines == {"tok", "", "<s>", "</s>", "<x>", "</x>"}

\* line.startswith("<")
startswith_lt(line) == line \in {"<s>", "</s>", "<x>", "</x>"}

\* the element a tag line names
tag_name(line) == IF line \in {"<s>", "</s>"} THEN "s" ELSE "x"

\* the line is an end tag
is_end_tag(line) == line \in {"</s>", "</x>"}

\* expat.ParserCreate(), and with fix the pseudo start tag parsed
ParserCreate(fix) ==
    [open |-> IF fix THEN <<"xml-fix-pseudo-start">> ELSE <<>>, closed |-> FALSE, error |-> FALSE]

\* parser.Parse(line) of a tag line: expat raises on a tag behind the document
\* element and on an end tag that does not close the open element
Parse(parser, line) ==
    IF parser.closed THEN [parser EXCEPT !.error = TRUE]
    ELSE IF ~is_end_tag(line)
    THEN [parser EXCEPT !.open = Append(parser.open, tag_name(line))]
    ELSE IF parser.open = <<>> \/ Last(parser.open) # tag_name(line)
    THEN [parser EXCEPT !.error = TRUE]
    ELSE [parser EXCEPT !.open = Front(parser.open), !.closed = Len(parser.open) = 1]

\* the state of SFileIter.__next__ when it is called
IterState ==
    [pos |-> nread, line |-> cpos, stack |-> stack, parser_state |-> parser_state,
     parser |-> elements, outcome |-> "running", item |-> <<>>]

RECURSIVE SFileIter_next(_, _)
\* SFileIter.__next__: the loop over the lines left in the file, until it
\* returns a span, the parser raises or the file ends; attrs of a start tag
\* stands for the attributes written on that line of the file
SFileIter_next(file, st) ==
    IF st.pos >= Len(file.lines) THEN [st EXCEPT !.outcome = "StopIteration"]
    ELSE LET line == file.lines[st.pos + 1]
             read == [st EXCEPT !.pos = st.pos + 1]
         IN  IF ~startswith_lt(line)
             THEN SFileIter_next(file, [read EXCEPT !.line = st.line + 1])
             ELSE LET parser == Parse(st.parser, line)
                      state == IF is_end_tag(line)
                               THEN [is_closing_tag |-> TRUE, tagname |-> tag_name(line),
                                     attrs |-> None]
                               ELSE [is_closing_tag |-> FALSE, tagname |-> tag_name(line),
                                     attrs |-> st.pos + 1]
                      parsed == [read EXCEPT !.parser = parser, !.parser_state = state]
                  IN  IF parser.error THEN [read EXCEPT !.parser = parser, !.outcome = "ExpatError"]
                      ELSE IF state.tagname # file.tagname THEN SFileIter_next(file, parsed)
                      ELSE IF ~state.is_closing_tag
                      THEN SFileIter_next(file,
                              [parsed EXCEPT !.stack = Append(st.stack,
                                                 <<st.line, state.tagname, state.attrs>>)])
                      ELSE IF Len(st.stack) > 0 /\ Last(st.stack)[2] = state.tagname
                      THEN [parsed EXCEPT !.stack = Front(st.stack),
                                          !.outcome = "return",
                                          !.item = <<<<Last(st.stack)[1], st.line>>,
                                                     Last(st.stack)[3]>>]
                      ELSE SFileIter_next(file, parsed)

\* SFileIter(file, "s", fix) on a file just opened
InitSFile ==
    /\ pc = "new"
    /\ \E lines \in SeqsUpTo(VrtLines, MaxFileLines), fix \in BOOLEAN :
          arg = [lines |-> lines, tagname |-> "s", fix |-> fix]
    /\ base_layer = NoObject
    /\ obj = NoObject
    /\ offsets = <<>>
    /\ f = <<>>
    /\ wi = 0
    /\ comp = NoComponent
    /\ cpos = 0
    /\ stack = <<>>
    /\ spans = <<>>
    /\ parser_state = [is_closing_tag |-> FALSE, tagname |-> "", attrs |-> None]
    /\ elements = [open |-> <<>>, closed |-> FALSE, error |-> FALSE]
    /\ nread = 0
    /\ files = <<>>

\* SFileIter.reset, also as __iter__ calls it: the file is rewound, the stack
\* and the parser are made anew; self.line is left as it is
SFileIter_reset ==
    /\ pc \in {"new", "iterating", "exhausted"}
    /\ Len(spans) < MaxPasses
    /\ nread' = 0
    /\ stack' = <<>>
    /\ parser_state' = [is_closing_tag |-> FALSE, tagname |-> "", attrs |-> None]
    /\ elements' = ParserCreate(arg.fix)
    /\ spans' = Append(spans, [items |-> <<>>, complete |-> FALSE])
    /\ pc' = "iterating"
    /\ UNCHANGED <<base_layer, arg, obj, offsets, f, wi, comp, cpos, files>>

\* one call of SFileIter.__next__ in the pass under way
SFileIter_call_next ==
    /\ pc = "iterating"
    /\ LET st == SFileIter_next(arg, IterState)
           pass == Len(spans)
       IN  /\ nread' = st.pos
           /\ cpos' = st.line
           /\ stack' = st.stack
           /\ parser_state' = st.parser_state
           /\ elements' = st.parser
           /\ spans' = IF st.outcome = "return"
                       THEN [spans EXCEPT ![pass].items = Append(@, st.item)]
                       ELSE IF st.outcome = "StopIteration"
                       THEN [spans EXCEPT ![pass].complete = TRUE]
                       ELSE spans
           /\ pc' = IF st.outcome = "return" THEN "iterating"
                    ELSE IF st.outcome = "StopIteration" THEN "exhausted"
                    ELSE "failed"
    /\ UNCHANGED <<base_layer, arg, obj, offsets, f, wi, comp, files>>

NextSFile ==
    \/ SFileIter_reset
    \/ SFileIter_call_next

SpecSFile == InitSFile /\ [][NextSFile]_vars

RECURSIVE SpansFrom(_, _, _, _, _)
\* the spans of the element tag in the lines from the k-th on, in the order
\* they are closed: pos counts the token lines before, started holds for each
\* open element of the tag the position and the line of its start tag
SpansFrom(lines, tag, k, pos, started) ==
    IF k > Len(lines) THEN <<>>
    ELSE IF lines[k] = "tok" THEN SpansFrom(lines, tag, k + 1, pos + 1, started)
    ELSE IF lines[k] = "" \/ tag_name(lines[k]) # tag
    THEN SpansFrom(lines, tag, k + 1, pos, started)
    ELSE IF ~is_end_tag(lines[k])
    THEN SpansFrom(lines, tag, k + 1, pos, Append(started, <<pos, k>>))
    ELSE IF started = <<>> THEN SpansFrom(lines, tag, k + 1, pos, started)
    ELSE <<<<<<Last(started)[1], pos>>, Last(started)[2]>>>>
            \o SpansFrom(lines, tag, k + 1, pos, Front(started))

\* what a pass over the file is to yield
ExpectedSpans == SpansFrom(arg.lines, arg.tagname, 1, 0, <<>>)

(***************************************************************************)
(* C20: every pass of SFileIter started by reset, a second or later one    *)
(* included, yields for each matched span of the requested tag             *)
(* ((start_cpos, end_cpos), attrs), start_cpos the position of the span's  *)
(* first token and end_cpos the position after its last, positions         *)
(* counting token lines only; a pass after reset yields what the first     *)
(* pass yielded.                                                           *)
(***************************************************************************)
C20_SFileIterPasses ==
    \A k \in 1..Len(spans) :
        spans[k].complete =>
            /\ spans[k].items = ExpectedSpans
            /\ spans[1].complete => spans[k].items = spans[1].items

\* the first pass over a file without blank lines yields the spans
C20_FirstPassNoBlankLine ==
    (Len(spans) >= 1 /\ spans[1].complete /\ \A i \in 1..Len(arg.lines) : arg.lines[i] # "")
        => spans[1].items = ExpectedSpans

\* a second pass has ended over a file that holds a span with a token in it
C20_SecondPassDone ==
    /\ Len(spans) = 2
    /\ spans[1].complete
    /\ spans[2].complete
    /\ Len(spans[1].items) >= 1
    /\ cpos >= 2

(***************************************************************************)
(* PFileIter (ziggypy/util.py) over an open VRT file.  A line is the list  *)
(* of its characters without the newline.  nread is the position of the    *)
(* file, cpos is self.lines, wi counts the resets, and spans keeps what    *)
(* __next__ has returned since the last reset.                             *)
(***************************************************************************)
\* the lines of the file: a tag, a blank line, a single column, two columns,
\* two columns the first of them empty
PLines ==
    {<<"<", "s", ">">>, <<" ">>, <<"a">>, <<"a", "\t", "b">>, <<"\t", "b">>}

\* str.isspace of one character
is_space(ch) == ch \in {" ", "\t"}

RECURSIVE lstrip(_)
lstrip(line) ==
    IF line # <<>> /\ is_space(Head(line)) THEN lstrip(Tail(line)) ELSE line

RECURSIVE rstrip(_)
rstrip(line) ==
    IF line # <<>> /\ is_space(Last(line)) THEN rstrip(Front(line)) ELSE line

\* line.strip()
strip(line) == rstrip(lstrip(line))

RECURSIVE split_tab(_, _, _)
\* cur + line split at "\t", at most maxsplit times when maxsplit is not negative
split_tab(line, maxsplit, cur) ==
    IF line = <<>> THEN <<cur>>
    ELSE IF Head(line) = "\t" /\ maxsplit # 0
    THEN <<cur>> \o split_tab(Tail(line), IF maxsplit > 0 THEN maxsplit - 1 ELSE maxsplit, <<>>)
    ELSE split_tab(Tail(line), maxsplit, Append(cur, Head(line)))

\* line.startswith("<")
line_startswith_lt(line) == line # <<>> /\ Head(line) = "<"

RECURSIVE count_cpos(_)
\* the loop of the conversion script that counts the corpus positions
count_cpos(lines) ==
    IF lines = <<>> THEN 0
    ELSE count_cpos(Front(lines))
            + (IF ~line_startswith_lt(Last(lines)) /\ strip(Last(lines)) # <<>> THEN 1 ELSE 0)

RECURSIVE PFileIter_next(_, _)
\* PFileIter.__next__: the loop over the lines left in the file, until it
\* returns a column, raises IndexError or the file ends
PFileIter_next(it, st) ==
    IF st.pos >= Len(it.lines) THEN [st EXCEPT !.outcome = "StopIteration"]
    ELSE LET line == it.lines[st.pos + 1]
             read == [st EXCEPT !.pos = st.pos + 1, !.lines = st.lines + 1]
         IN  IF ~line_startswith_lt(line) /\ strip(line) # <<>>
             THEN LET cols == split_tab(strip(line), it.total_cols - 1, <<>>)
                  IN  IF it.column < Len(cols)
                      THEN [read EXCEPT !.outcome = "return", !.item = cols[it.column + 1]]
                      ELSE [read EXCEPT !.outcome = "IndexError"]
             ELSE PFileIter_next(it, read)

\* PFileIter(file, column) and PFileIter(file, column, total_cols) on a file
\* just opened
InitPFile ==
    /\ pc = "new"
    /\ \E lines \in SeqsUpTo(PLines, MaxFileLines), column \in {0, 1}, total_cols \in {-1, 2} :
          arg = [lines |-> lines, column |-> column, total_cols |-> total_cols]
    /\ base_layer = NoObject
    /\ obj = NoObject
    /\ offsets = <<>>
    /\ f = <<>>
    /\ wi = 0
    /\ comp = NoComponent
    /\ cpos = 0
    /\ stack = <<>>
    /\ spans = [items |-> <<>>, complete |-> FALSE, raised |-> FALSE]
    /\ parser_state = [is_closing_tag |-> FALSE, tagname |-> ""]
    /\ elements = <<>>
    /\ nread = 0
    /\ files = <<>>

\* PFileIter.reset, also as __iter__ calls it: the file is rewound
PFileIter_reset ==
    /\ pc \in {"new", "iterating", "exhausted", "raised"}
    /\ wi < MaxPasses
    /\ nread' = 0
    /\ wi' = wi + 1
    /\ spans' = [items |-> <<>>, complete |-> FALSE, raised |-> FALSE]
    /\ pc' = "iterating"
    /\ UNCHANGED <<base_layer, arg, obj, offsets, f, comp, cpos, stack, parser_state,
                   elements, files>>

\* one call of PFileIter.__next__ in the pass under way
PFileIter_call_next ==
    /\ pc = "iterating"
    /\ LET st == PFileIter_next(arg, [pos |-> nread, lines |-> cpos, outcome |-> "running",
                                      item |-> <<>>])
       IN  /\ nread' = st.pos
           /\ cpos' = st.lines
           /\ spans' = IF st.outcome = "return"
                       THEN [spans EXCEPT !.items = Append(@, st.item)]
                       ELSE IF st.outcome = "StopIteration"
                       THEN [spans EXCEPT !.complete = TRUE]
                       ELSE [spans EXCEPT !.raised = TRUE]
           /\ pc' = IF st.outcome = "return" THEN "iterating"
                    ELSE IF st.outcome = "StopIteration" THEN "exhausted"
                    ELSE "raised"
    /\ UNCHANGED <<base_layer, arg, obj, offsets, f, wi, comp, stack, parser_state,
                   elements, files>>

NextPFile ==
    \/ PFileIter_reset
    \/ PFileIter_call_next

SpecPFile == InitPFile /\ [][NextPFile]_vars

\* the token lines of the file, in file order: not blank, not starting with "<"
TokenLines(lines) ==
    SelectSeq(lines, LAMBDA l : ~(l = <<>> \/ \A i \in 1..Len(l) : l[i] \in {" ", "\t"})
                                /\ ~(l # <<>> /\ l[1] = "<"))

\* the fields of a line between its tabs, the surrounding white space left out
FieldsOf(line) == split_tab(strip(line), -1, <<>>)

\* every token line has a field at the column asked for
EnoughColumns ==
    \A i \in 1..Len(TokenLines(arg.lines)) :
        Len(split_tab(strip(TokenLines(arg.lines)[i]), arg.total_cols - 1, <<>>)) > arg.column

\* the pass since the last reset has yielded one value per token line read,
\* in file order, has not raised, and once it has ended there are as many
\* values as the script counts corpus positions
PassYieldsTokens ==
    /\ ~spans.raised
    /\ Len(spans.items) <= Len(TokenLines(arg.lines))
    /\ \A i \in 1..Len(spans.items) :
          spans.items[i] = FieldsOf(TokenLines(arg.lines)[i])[arg.column + 1]
    /\ spans.complete =>
          /\ Len(spans.items) = count_cpos(arg.lines)
          /\ Len(spans.items) = Len(TokenLines(arg.lines))

(***************************************************************************)
(* C21: after any sequence of complete or partial passes and resets of a   *)
(* PFileIter, reset followed by a full iteration yields exactly N values,  *)
(* one per token line in file order, the same on every pass, N being the   *)
(* corpus size the script counts for the file.                             *)
(***************************************************************************)
C21_PFileIterPasses == wi >= 1 => PassYieldsTokens

\* C21 holds of a file every token line of which, stripped, has the column asked for
C21_WhenColumnsSuffice == (wi >= 1 /\ EnoughColumns) => PassYieldsTokens

\* every token line has, unstripped, a field at the column asked for
EnoughRawColumns ==
    \A i \in 1..Len(TokenLines(arg.lines)) :
        Len(split_tab(TokenLines(arg.lines)[i], -1, <<>>)) > arg.column

\* C21 restricted to files whose token lines all have the column: violated too
C21_WhenRawColumnsSuffice == (wi >= 1 /\ EnoughRawColumns) => PassYieldsTokens

\* a second pass, begun after a partial first one, has ended with two values
C21_SecondPassDone ==
    /\ wi = 2
    /\ EnoughColumns
    /\ arg.column = 1
    /\ spans.complete
    /\ Len(spans.items) = 2
    /\ cpos > Len(arg.lines)
    /\ cpos < 2 * Len(arg.lines)

(***************************************************************************)
(* The order in which Container.write fills the sink                       *)
(***************************************************************************)
\* the components a caller of Container may hand to it: an empty and a
\* two-byte StringList, a Vector of one row, an InvertedIndex of one type
ComponentPool ==
    {StringList(<<>>, "StringData", 0),
     StringList(<<<<97>>>>, "StringData", 1),
     Vector(<<1>>, "IntStream", 1, 1),
     InvertedIndex(<<<<97>>>>, <<<<0>>>>, "LexIDIndex", 1)}

\* nothing is built yet
InitContainer ==
    /\ pc = "start"
    /\ base_layer = NoObject
    /\ arg = NoArg
    /\ obj = NoObject
    /\ offsets = <<>>
    /\ f = <<>>
    /\ wi = 0
    /\ comp = NoComponent
    /\ NoDriver

\* Container(components, "ZVc", (0, 0), uuid, (base, None), "") held by a Variable
NewContainer ==
    /\ pc = "start"
    /\ \E components \in SeqsUpTo(ComponentPool, MaxComponents) :
          Constructed([values |-> components],
                      Object("Variable", 0, FreshUuid, components, "ZVc", <<0, 0>>,
                             LayerUuid, <<>>))

NextContainer ==
    \/ NewContainer
    \/ WriteHeader
    \/ WriteComponent
    \/ WriteDone

SpecContainer == InitContainer /\ [][NextContainer]_vars

\* the bytes component i of the container has written or is to write
DataOf(i) == write(obj.container.components[i])

\* where the sink stood when the padding before component i began
EndBefore(i) ==
    IF i = 1 THEN 160 + 48 * NumComponents ELSE BomOffset(i - 1) + Len(DataOf(i - 1))

(***************************************************************************)
(* C23: Container.write emits the 160-byte header, the C BOM entries in    *)
(* component order, then for each component in that order the zero padding *)
(* up to its BOM offset and its data; when the data of a component begins  *)
(* the sink stands at the offset of its BOM entry, and the padding before  *)
(* it is 0 to 7 zero bytes.                                                *)
(***************************************************************************)
C23_WriteOrder ==
    /\ (pc = "failed" /\ obj.cls # "Failed") => FALSE
    /\ HeaderWritten =>
          /\ Len(f) >= 160 + 48 * NumComponents
          /\ \A i \in 1..NumComponents :
                /\ f[160 + 48 * (i - 1) + 2] = obj.container.components[i].component_type
                /\ SubSeq(f, 160 + 48 * (i - 1) + 4, 160 + 48 * (i - 1) + 16)
                      = ljust(ascii(obj.container.components[i].name), 13)
          /\ Len(f) = IF wi = 0 THEN 160 + 48 * NumComponents
                      ELSE BomOffset(wi) + Len(DataOf(wi))
          /\ \A i \in 1..wi :
                /\ 0 <= BomOffset(i) - EndBefore(i)
                /\ BomOffset(i) - EndBefore(i) <= 7
                /\ SubSeq(f, EndBefore(i) + 1, BomOffset(i)) = Zeros(BomOffset(i) - EndBefore(i))
                /\ SubSeq(f, BomOffset(i) + 1, BomOffset(i) + Len(DataOf(i))) = DataOf(i)

\* a container is written whose second component follows one to seven bytes
\* of padding and whose third follows none
C23_PaddedContainer ==
    /\ pc = "done"
    /\ NumComponents >= 3
    /\ BomOffset(2) - EndBefore(2) \in 1..7
    /\ BomOffset(3) - EndBefore(3) = 0
    /\ Len(DataOf(3)) > 0

(***************************************************************************)
(* The counts of an IndexCompressed                                        *)
(***************************************************************************)
\* the pairs, padding rows left out, of the blocks the builder makes of the input
BlockSizes ==
    LET v == IndexCompressed_locals(arg.values, arg.sorted)
    IN  [b \in 1..Len(v.blocks) |->
            Len(v.blocks[b]) - (IF b = Len(v.blocks) THEN v.block_padding ELSE 0)]

(***************************************************************************)
(* C24: for every IndexCompressed over N >= 1 pairs the stored r is the    *)
(* sum over the blocks of min(16, block size), o = N - r is the number of  *)
(* pairs beyond the sixteenth in the blocks of more than sixteen, the      *)
(* number of blocks mr, which is the number of sync entries and of packed  *)
(* blocks, is ceil(r / 16), and the builder's assertions on mr never fail. *)
(***************************************************************************)
C24_RegularAndOverflow ==
    /\ (pc = "failed" /\ Len(arg.values) >= 1) => FALSE
    /\ WrittenIndexCompressed =>
          LET v == IndexCompressed_locals(arg.values, arg.sorted)
              N == Len(arg.values)
              sizes == BlockSizes
          IN  /\ SumSeq(sizes) = N
              /\ ic_r = SumSeq([b \in 1..Len(sizes) |-> Min(16, sizes[b])])
              /\ N - ic_r = SumSeq([b \in 1..Len(sizes) |->
                                       IF sizes[b] > 16 THEN sizes[b] - 16 ELSE 0])
              /\ v.o = N - ic_r
              /\ v.mr = (ic_r + 15) \div 16
              /\ v.mr = Len(v.blocks)
              /\ v.mr = Len(v.packed_blocks)
              /\ v.mr = Len(v.offsets)
              /\ Len(f) = 8 + 16 * v.mr
                             + SumSeq([b \in 1..v.mr |-> Len(v.packed_blocks[b])])

\* two blocks, overflow items in the first, the second short of sixteen
C24_Witness ==
    /\ WrittenIndexCompressed
    /\ Len(BlockSizes) = 2
    /\ BlockSizes[1] > 16
    /\ BlockSizes[2] < 16
    /\ ic_r = 16 + BlockSizes[2]

(***************************************************************************)
(* The blocks of a written VectorDelta                                     *)
(***************************************************************************)
WrittenVectorDelta == pc = "done" /\ comp.ctype = "VectorDelta"

\* the varints of block b (0-based) of a written vector of m blocks of d
\* columns: column after column, sixteen each, read from where sync[b] points
vec_block_varints(b, m, d) == decode_varints(f, 8 * m + vec_sync(b) + 1, 16 * d).values

\* column j of row r (both 1-based) of block b of the input, -1 past its end
InputCell(b, r, j) ==
    IF 16 * b + r <= arg.n THEN arg.values[(16 * b + r - 1) * arg.d + j] ELSE -1

(***************************************************************************)
(* C25: in a VectorDelta, for every block and every column, the first row  *)
(* of the block is stored as its value and row r >= 1 as its difference to *)
(* row r-1 of the same block, the -1 padding rows of a short final block   *)
(* included; no delta refers to a row of another block, so each block      *)
(* decodes to its own rows from its own bytes.                             *)
(***************************************************************************)
C25_DeltaWithinBlock ==
    WrittenVectorDelta =>
        LET m == NumBlocks(arg.n)
        IN  \A b \in 0..(m - 1) : \A j \in 1..arg.d :
               LET stored == SubSeq(vec_block_varints(b, m, arg.d), 16 * (j - 1) + 1, 16 * j)
               IN  /\ Len(stored) = 16
                   /\ stored[1] = InputCell(b, 1, j)
                   /\ \A r \in 2..16 : stored[r] = InputCell(b, r, j) - InputCell(b, r - 1, j)
                   /\ PrefixSums(stored) = [r \in 1..16 |-> InputCell(b, r, j)]

\* two columns, a second block short of sixteen rows that starts anew with a
\* raw value and ends in padding
C25_Witness ==
    /\ WrittenVectorDelta
    /\ arg.d = 2
    /\ arg.n > 16
    /\ arg.n % 16 # 0
    /\ arg.n % 16 < 15
    /\ vec_block_varints(1, 2, 2)[1] = InputCell(1, 1, 1)
    /\ InputCell(1, 1, 1) # InputCell(0, 16, 1)
    /\ vec_block_varints(0, 2, 2)[1] # vec_block_varints(0, 2, 2)[2]
    /\ vec_block_varints(1, 2, 2)[16] = 0

(***************************************************************************)
(* C28: with n = 0, VectorComp, VectorDelta and IndexCompressed construct  *)
(* without error and hold zero blocks and zero sync entries, so that every *)
(* variable family can be built and written over a layer of 0 positions.   *)
(***************************************************************************)
C28_EmptyCorpus ==
    (VariableCalled /\ base_layer.n = 0 /\ Len(arg.values) = 0 /\ Len(StoredComment) < 72) =>
        /\ obj.cls # "Failed"
        /\ pc # "failed"
        /\ \A i \in 1..NumComponents :
              obj.container.components[i].ctype \in {"VectorComp", "VectorDelta"}
                 => bytelen(obj.container.components[i]) = 0

\* C28 of the components built on their own: a compressed vector of no rows
C28_EmptyVector ==
    (pc # "start" /\ arg.n = 0) => (pc # "failed" /\ (pc = "done" => Len(f) = 8 * arg.n * arg.d))

\* C28 of an IndexCompressed of no pairs built on its own
C28_EmptyIndex ==
    (pc # "start" /\ Len(arg.values) = 0) => pc # "failed"

(***************************************************************************)
(* The conversion script from its attribute checks to its last file        *)
(* (scripts/vrt_to_zig.py, lines 183-336).  The variables hold the         *)
(* script's globals: arg the command line and what the pass over the VRT   *)
(* input left behind (its token lines, spans and span attributes), cpos    *)
(* the corpus size clen, base_layer the primary layer, elements the dict   *)
(* s_attr_layers, obj the object built last or the exception that ended    *)
(* the run, wi the index of the running loop, nread the number of UUIDs    *)
(* drawn so far, stack the directories made and files the files opened     *)
(* for writing, in order, each with the bytes it holds when closed.        *)
(***************************************************************************)
\* the token lines of the input: one or two columns
RunLines == {<<"1">>, <<"x">>, <<"1", "\t", "1">>, <<"1", "\t", "9">>}

\* -p: the p-attributes given, as (name, type)
RunPAttrs ==
    {<<>>,
     <<<<"a", "int">>>>,
     <<<<"a", "indexed">>>>,
     <<<<"a", "skip">>, <<"b", "ptr">>>>,
     <<<<"a", "indexed">>, <<"b", "int">>>>}

\* -s and -a with what the VRT pass found for them: no s-attribute; "s"
\* without a span in the input; "s" with one span over the corpus, without
\* or with an annotation n, which the span has or lacks; an annotation for
\* "s" without -s s
RunSAttrs(clen) ==
    {[s_attrs |-> <<>>, spans |-> <<>>, span_attrs |-> <<>>, s_annos |-> <<>>],
     [s_attrs |-> <<"s">>, spans |-> <<>>, span_attrs |-> <<>>, s_annos |-> <<>>],
     [s_attrs |-> <<"s">>, spans |-> <<<<0, clen>>>>, span_attrs |-> <<{}>>,
      s_annos |-> <<>>],
     [s_attrs |-> <<"s">>, spans |-> <<<<0, clen>>>>, span_attrs |-> <<{<<"n", <<"x">>>>}>>,
      s_annos |-> <<<<"s", "n", "int">>>>],
     [s_attrs |-> <<"s">>, spans |-> <<<<0, clen>>>>, span_attrs |-> <<{<<"n", <<"x">>>>}>>,
      s_annos |-> <<<<"s", "n", "indexed">>>>],
     [s_attrs |-> <<"s">>, spans |-> <<<<0, clen>>>>, span_attrs |-> <<{}>>,
      s_annos |-> <<<<"s", "n", "indexed">>>>],
     [s_attrs |-> <<>>, spans |-> <<>>, span_attrs |-> <<>>,
      s_annos |-> <<<<"s", "n", "int">>>>]}

\* len(line.split()) of the first token line, 0 without one
pcount(lines) ==
    IF lines = <<>> THEN 0 ELSE Len(split_tab(strip(lines[1]), -1, <<>>))

\* str.encode("utf-8") of the characters the input is made of
encode_char(ch) ==
    CASE ch = "0" -> 48 [] ch = "1" -> 49 [] ch = "9" -> 57 [] ch = "a" -> 97
      [] ch = "b" -> 98 [] ch = "n" -> 110 [] ch = "s" -> 115 [] ch = "x" -> 120
      [] ch = "_" -> 95 [] ch = " " -> 32 [] ch = "\t" -> 9

encode_str(str) == [i \in 1..Len(str) |-> encode_char(str[i])]

is_digit(ch) == ch \in {"0", "1", "9"}

RECURSIVE int(_)
\* int(str) of a string of digits
int(str) ==
    IF str = <<>> THEN 0
    ELSE 10 * int(Front(str)) + (encode_char(Last(str)) - 48)

\* int(str) raises ValueError
int_raises(str) == str = <<>> \/ \E i \in 1..Len(str) : ~is_digit(str[i])

\* parse_int; default is <<>> for None and <<d>> for --int-default d; the
\* result is <<>> when the exception is raised again
parse_int(str, default) ==
    IF ~int_raises(str) THEN <<int(str)>> ELSE default

\* parse_ptr
parse_ptr(pos, base, head) ==
    IF int_raises(head) THEN -1
    ELSE IF int(head) = 0 THEN pos
    ELSE IF int_raises(base) THEN -1
    ELSE pos + (int(head) - int(base))

RECURSIVE PFileIter_pass(_, _)
\* list(PFileIter(...)): the columns one pass returns, and whether it ended
\* in IndexError
PFileIter_pass(it, st) ==
    LET nxt == PFileIter_next(it, st)
    IN  IF nxt.outcome = "return"
        THEN LET rest == PFileIter_pass(it, nxt)
             IN  [items |-> <<nxt.item>> \o rest.items, raised |-> rest.raised]
        ELSE [items |-> <<>>, raised |-> nxt.outcome = "IndexError"]

\* a PFileIter on the input just opened
open_input(lines, column, total_cols) ==
    PFileIter_pass([lines |-> lines, column |-> column, total_cols |-> total_cols],
                   [pos |-> 0, lines |-> 0, outcome |-> "new", item |-> <<>>])

RECURSIVE write_components(_, _, _, _)
\* the loop of Container.write from component i on, f holding what was
\* written so far; bytes() of a negative count raises ValueError
write_components(components, offs, i, out) ==
    IF i > Len(components) THEN [bytes |-> out, raised |-> FALSE]
    ELSE IF offs[i] - Len(out) < 0 THEN [bytes |-> out, raised |-> TRUE]
    ELSE write_components(components, offs, i + 1,
                          out \o Zeros(offs[i] - Len(out)) \o write(components[i]))

\* Container.write(f) on a file just opened
Container_write(c) ==
    write_components(c.components, header_offsets(c.components), 1, header_bytes(c))

\* isinstance(obj, Layer)
is_layer(o) == o.cls \in {"PrimaryLayer", "SegmentationLayer"}

\* write_datastore_object opening the file written last once more
write_datastore_object_over_last_file(fs, o, filename) ==
    LET written == Container_write(o.container)
        file == [path |-> filename,
                 ext |-> IF is_layer(o) THEN ".zigl" ELSE ".zigv",
                 bytes |-> written.bytes, raised |-> written.raised]
    IN  IF fs = <<>> THEN <<file>> ELSE [fs EXCEPT ![Len(fs)] = file]

\* write_datastore_object: the file opened with mode "wb" and what obj.write
\* left in it, appended to the files opened so far
write_datastore_object(fs, o, filename) ==
    LET written == Container_write(o.container)
    IN  Append(fs, [path |-> filename,
                    ext |-> IF is_layer(o) THEN ".zigl" ELSE ".zigv",
                    bytes |-> written.bytes, raised |-> written.raised])

\* p.parent.mkdir(parents=True, exist_ok=True) in write_datastore_object
mkdir_parents(dirs, filename) ==
    IF Len(filename) > 1 /\ ~(\E i \in 1..Len(dirs) : dirs[i] = Front(filename))
    THEN Append(dirs, Front(filename))
    ELSE dirs

\* f"p-attr {name}"
p_comment(name) == <<112, 45, 97, 116, 116, 114, 32, encode_char(name)>>

\* f"s-attr {attr}"
s_comment(attr) == <<115, 45, 97, 116, 116, 114, 32, encode_char(attr)>>

\* f"s-attr {attr}_{anno}"
anno_comment(attr, anno) == s_comment(attr) \o <<95, encode_char(anno)>>

\* [parse_int(s, default=args.int_default) for s in ...]: the integers, and
\* whether parse_int raised ValueError instead
parse_ints(strs, default) ==
    IF \E i \in 1..Len(strs) : parse_int(strs[i], default) = <<>>
    THEN [raised |-> TRUE, ints |-> <<>>]
    ELSE [raised |-> FALSE, ints |-> [i \in 1..Len(strs) |-> parse_int(strs[i], default)[1]]]

\* one round of the loop over p_attrs, from PFileIter(f, i) to the variable:
\* the variable, or the exception that leaves the loop
p_variable(primary_layer, a, i, uuid) ==
    LET name == a.p_attrs[i + 1][1]
        type == a.p_attrs[i + 1][2]
        fileiter == open_input(a.lines, i, -1)
        c == p_comment(name)
    IN  CASE type = "indexed" ->
                 IF fileiter.raised THEN Failed("IndexError")
                 ELSE FileIndexedStringVariable(
                          primary_layer,
                          [k \in 1..Len(fileiter.items) |-> encode_str(strip(fileiter.items[k]))],
                          uuid, ~a.uncompressed, c)
          [] type = "int" ->
                 LET ints == parse_ints(fileiter.items, a.int_default)
                 IN  IF ints.raised THEN Failed("ValueError")
                     ELSE IF fileiter.raised THEN Failed("IndexError")
                     ELSE IntegerVariable(primary_layer, ints.ints, uuid, ~a.uncompressed,
                                          FALSE, c)
          [] type = "ptr" ->
                 LET base_index == CHOOSE k \in 0..(Len(a.p_attrs) - 1) :
                                       /\ a.p_attrs[k + 1][1] = a.ptr_base
                                       /\ \A j \in 0..(k - 1) : a.p_attrs[j + 1][1] # a.ptr_base
                     base == open_input(a.lines, base_index, Len(a.p_attrs))
                     m == IF Len(base.items) < Len(fileiter.items)
                          THEN Len(base.items) ELSE Len(fileiter.items)
                 IN  IF base.raised \/ fileiter.raised THEN Failed("IndexError")
                     ELSE PointerVariable(
                              primary_layer,
                              [k \in 1..m |-> parse_ptr(k - 1, base.items[k], fileiter.items[k])],
                              uuid, ~a.uncompressed, c)

\* attrs[anno] of a span's attributes
attr_value(attrs, anno) == (CHOOSE kv \in attrs : kv[1] = anno)[2]

\* the body of the try statement in the loop over the annotations: the
\* variable, or the exception the except clause catches
anno_variable(layer, data, type, uuid, a, c) ==
    CASE type = "indexed" ->
             IndexedStringVariable(layer, [k \in 1..Len(data) |-> encode_str(data[k])],
                                   uuid, ~a.uncompressed, c)
      [] type = "int" ->
             LET ints == parse_ints(data, a.int_default)
             IN  IF ints.raised THEN Failed("ValueError")
                 ELSE IntegerVariable(layer, ints.ints, uuid, ~a.uncompressed, FALSE, c)

\* s_attr_layers[attr] is there
has_layer(s_attr_layers, attr) ==
    \E i \in 1..Len(s_attr_layers) : s_attr_layers[i][1] = attr

\* the layer an annotation is built on, taken to be the primary layer
anno_layer_is_primary_layer(primary_layer, s_attr_layers, attr) == primary_layer

\* base_layer = s_attr_layers[attr]
anno_layer(primary_layer, s_attr_layers, attr) ==
    s_attr_layers[CHOOSE i \in 1..Len(s_attr_layers) : s_attr_layers[i][1] = attr][2]

\* lines 309-314, one round of the loops over s_annos up to its try
\* statement: the exception raised, or the annotation's values
anno_data(primary_layer, s_attr_layers, a, k) ==
    LET attr == a.s_annos[k + 1][1]
        anno == a.s_annos[k + 1][2]
    IN  IF ~has_layer(s_attr_layers, attr)
        THEN [raised |-> "KeyError", data |-> <<>>]
        ELSE IF \E i \in 1..Len(a.span_attrs) :
                   ~(\E kv \in a.span_attrs[i] : kv[1] = anno)
        THEN [raised |-> "KeyError", data |-> <<>>]
        ELSE IF Len(a.span_attrs) # anno_layer(primary_layer, s_attr_layers, attr).n
        THEN [raised |-> "Inconsistend number of annotations", data |-> <<>>]
        ELSE [raised |-> "",
              data |-> [i \in 1..Len(a.span_attrs) |-> attr_value(a.span_attrs[i], anno)]]

\* the output directory exists and --force was not given; with both given
\* instead
output_refused_when_forced(a) == a.exists /\ a.force

\* args.output.exists() and not args.force
output_refused(a) == a.exists /\ ~a.force

\* the loop that runs next, and its index, once round i of a loop is reached
loop_at(a, phase, i) ==
    LET p == IF phase = "primary" THEN 0 ELSE i
        j == IF phase = "s_attrs" THEN i ELSE 0
        k == IF phase = "s_annos" THEN i ELSE 0
    IN  IF phase \in {"primary", "p_attrs"} /\ p < Len(a.p_attrs) THEN <<"p_attrs", p>>
        ELSE IF phase # "s_annos" /\ j < Len(a.s_attrs) THEN <<"s_attrs", j>>
        ELSE IF k < Len(a.s_annos) THEN <<"s_annos", k>>
        ELSE <<"finished", 0>>

\* the script has run up to its attribute checks
InitRun ==
    /\ \E lines \in SeqsUpTo(RunLines, MaxTokens), p_attrs \in RunPAttrs,
          exists \in BOOLEAN, force \in BOOLEAN, uncompressed \in BOOLEAN,
          int_default \in {<<>>, <<0>>} :
          \E s \in RunSAttrs(Len(lines)) :
             /\ Len(p_attrs) <= pcount(lines)
             /\ arg = [lines |-> lines, p_attrs |-> p_attrs, ptr_base |-> "a",
                       s_attrs |-> s.s_attrs, spans |-> s.spans,
                       span_attrs |-> s.span_attrs, s_annos |-> s.s_annos,
                       exists |-> exists, force |-> force,
                       uncompressed |-> uncompressed, int_default |-> int_default]
             /\ cpos = Len(lines)
    /\ pc = "checks"
    /\ base_layer = NoObject
    /\ obj = NoObject
    /\ offsets = <<>>
    /\ f = <<>>
    /\ wi = 0
    /\ comp = NoComponent
    /\ stack = <<>>
    /\ spans = <<>>
    /\ parser_state = <<>>
    /\ elements = <<>>
    /\ nread = 0
    /\ files = <<>>

\* lines 183-204: no attribute to encode, or the output directory exists
\* and --force is missing: exit(); otherwise the directory is made
RunChecks ==
    /\ pc = "checks"
    /\ IF arg.p_attrs = <<>> /\ arg.s_attrs = <<>> /\ arg.s_annos = <<>>
       THEN /\ pc' = "exited"
            /\ UNCHANGED stack
       ELSE IF output_refused(arg)
       THEN /\ pc' = "exited"
            /\ UNCHANGED stack
       ELSE /\ pc' = "primary"
            /\ stack' = IF ~arg.exists THEN <<<<>>>> ELSE stack
    /\ UNCHANGED <<base_layer, arg, obj, offsets, f, wi, comp>>
    /\ UNCHANGED <<cpos, spans, parser_state, elements, nread, files>>

\* line 254: the primary layer
RunPrimary ==
    /\ pc = "primary"
    /\ base_layer' = PrimaryLayer(cpos, nread + 1, ascii("corpus.vrt"))
    /\ obj' = base_layer'
    /\ f' = <<"primary">>
    /\ nread' = nread + 1
    /\ pc' = "write_primary"
    /\ UNCHANGED <<arg, offsets, wi, comp, cpos, stack, spans, parser_state, elements, files>>

\* lines 260-289: one round of the loop over p_attrs, up to the variable;
\* an exception ends the run
RunPAttr ==
    /\ pc = "p_attrs"
    /\ IF arg.p_attrs[wi + 1][2] = "skip"
       THEN /\ pc' = loop_at(arg, "p_attrs", wi + 1)[1]
            /\ wi' = loop_at(arg, "p_attrs", wi + 1)[2]
            /\ UNCHANGED <<obj, f, nread>>
       ELSE /\ obj' = p_variable(base_layer, arg, wi, nread + 1)
            /\ f' = <<arg.p_attrs[wi + 1][1]>>
            /\ nread' = nread + 1
            /\ pc' = IF obj'.cls = "Failed" THEN "crashed" ELSE "write_p_attrs"
            /\ UNCHANGED wi
    /\ UNCHANGED <<base_layer, arg, offsets, comp>>
    /\ UNCHANGED <<cpos, stack, spans, parser_state, elements, files>>

\* lines 298-302: one round of the loop over s_attrs, up to the layer; an
\* exception ends the run
RunSAttr ==
    /\ pc = "s_attrs"
    /\ f' = <<arg.s_attrs[wi + 1], arg.s_attrs[wi + 1]>>
    /\ IF arg.spans = <<>>
       THEN /\ obj' = Failed("KeyError")
            /\ UNCHANGED nread
       ELSE /\ obj' = SegmentationLayer(base_layer, Len(arg.spans), arg.spans, nread + 1,
                                        ~arg.uncompressed, s_comment(arg.s_attrs[wi + 1]))
            /\ nread' = nread + 1
    /\ elements' = IF obj'.cls = "Failed" THEN elements
                   ELSE Append(elements, <<arg.s_attrs[wi + 1], obj'>>)
    /\ pc' = IF obj'.cls = "Failed" THEN "crashed" ELSE "write_s_attrs"
    /\ UNCHANGED <<base_layer, arg, offsets, wi, comp>>
    /\ UNCHANGED <<cpos, stack, spans, parser_state, files>>

\* lines 308-334: one round of the loops over s_annos, up to the end of the
\* try statement; an exception raised before the try statement ends the run,
\* one raised in it ends the run with the except clause's message and exit()
RunSAnno ==
    /\ pc = "s_annos"
    /\ f' = <<arg.s_annos[wi + 1][1], arg.s_annos[wi + 1][2]>>
    /\ LET before == anno_data(base_layer, elements, arg, wi)
       IN  IF before.raised # ""
           THEN /\ obj' = Failed(before.raised)
                /\ pc' = "crashed"
                /\ UNCHANGED nread
           ELSE /\ obj' = anno_variable(anno_layer(base_layer, elements, arg.s_annos[wi + 1][1]),
                                        before.data, arg.s_annos[wi + 1][3], nread + 1, arg,
                                        anno_comment(arg.s_annos[wi + 1][1],
                                                     arg.s_annos[wi + 1][2]))
                /\ nread' = nread + 1
                /\ pc' = IF obj'.cls = "Failed" THEN "exited" ELSE "write_s_annos"
    /\ UNCHANGED <<base_layer, arg, offsets, wi, comp>>
    /\ UNCHANGED <<cpos, stack, spans, parser_state, elements, files>>

\* the loop a call of write_datastore_object is made from
loop_of(label) ==
    CASE label = "write_primary" -> "primary"
      [] label = "write_p_attrs" -> "p_attrs"
      [] label = "write_s_attrs" -> "s_attrs"
      [] label = "write_s_annos" -> "s_annos"

\* lines 255, 291, 303, 336: write_datastore_object(obj, filename); an
\* exception raised by obj.write is not handled
RunWrite ==
    /\ pc \in {"write_primary", "write_p_attrs", "write_s_attrs", "write_s_annos"}
    /\ files' = write_datastore_object(files, obj, f)
    /\ stack' = mkdir_parents(stack, f)
    /\ IF Last(files').raised
       THEN /\ pc' = "crashed"
            /\ UNCHANGED wi
       ELSE /\ pc' = loop_at(arg, loop_of(pc), wi + 1)[1]
            /\ wi' = loop_at(arg, loop_of(pc), wi + 1)[2]
    /\ UNCHANGED <<base_layer, arg, obj, offsets, f, comp>>
    /\ UNCHANGED <<cpos, spans, parser_state, elements, nread>>

NextRun ==
    \/ RunChecks
    \/ RunPrimary
    \/ RunPAttr
    \/ RunSAttr
    \/ RunSAnno
    \/ RunWrite

SpecRun == InitRun /\ [][NextRun]_vars

(***************************************************************************)
(* C22: input errors at the driver boundary                                *)
(***************************************************************************)
\* the exceptions the three input errors raise: int() of a non-integer
\* without --int-default, a line with too few columns, a head pointer out
\* of range
InputErrors ==
    {"ValueError", "IndexError", "Head pointers must fall into the range [-1, N-1]"}

\* C22: a non-integer value without default, a line with too few columns or
\* an out-of-range pointer never ends the run in an exception that is not
\* handled, for p-attributes as for annotations
C22_InputErrorsCaught ==
    (pc = "crashed" /\ obj.cls = "Failed") => obj.what \notin InputErrors

\* C22 for the annotations alone: a non-integer annotation value ends the
\* run with the message of the except clause
C22_AnnotationErrorsCaught ==
    (pc \in {"crashed", "exited"} /\ obj.cls = "Failed" /\ Len(f) = 2 /\ f[1] # f[2]
        /\ obj.what \in InputErrors)
    => pc = "exited"

\* a non-integer annotation value was caught
C22_AnnotationErrorCaughtReached ==
    pc = "exited" /\ obj.cls = "Failed" /\ obj.what = "ValueError"

(***************************************************************************)
(* C26: the order of the files of a run and their UUID links               *)
(***************************************************************************)
\* the container UUID in the header of the i-th file written
FileUuid(i) == SubSeq(files[i].bytes, 17, 32)

\* the base1 UUID in the header of the i-th file written
FileBase1(i) == SubSeq(files[i].bytes, 33, 48)

\* the i-th file written is a variable file
IsVariableFile(i) == files[i].ext = ".zigv"

\* the i-th file written is the variable file of an annotation
IsAnnotationFile(i) == IsVariableFile(i) /\ Len(files[i].path) = 2

\* C26: the primary layer file is the first file written; the base1 UUID of
\* every variable file is the container UUID of a layer file written before
\* it, for an annotation's variable that of its segmentation layer's file;
\* an annotation for a structural attribute without a layer leaves no
\* variable file
C26_LayersBeforeVariables ==
    /\ files # <<>> => (files[1].path = <<"primary">> /\ files[1].ext = ".zigl")
    /\ \A k \in 1..Len(files) :
          IsVariableFile(k) =>
              \E j \in 1..(k - 1) : files[j].ext = ".zigl" /\ FileUuid(j) = FileBase1(k)
    /\ \A k \in 1..Len(files) :
          IsAnnotationFile(k) =>
              \E j \in 1..(k - 1) :
                  /\ files[j].ext = ".zigl"
                  /\ files[j].path = <<files[k].path[1], files[k].path[1]>>
                  /\ FileUuid(j) = FileBase1(k)
    /\ \A i \in 1..Len(arg.s_annos) :
          ~has_layer(elements, arg.s_annos[i][1]) =>
              ~(\E k \in 1..Len(files) :
                    /\ IsVariableFile(k)
                    /\ files[k].path = <<arg.s_annos[i][1], arg.s_annos[i][2]>>)

\* a run has written a p-attribute's variable, a segmentation layer and the
\* variable of one of its annotations
C26_Witness ==
    /\ pc = "finished"
    /\ \E k \in 1..Len(files) : IsVariableFile(k) /\ Len(files[k].path) = 1
    /\ \E k \in 1..Len(files) : IsAnnotationFile(k) /\ FileBase1(k) # FileUuid(1)

\* a run has ended at an annotation for a structural attribute without a
\* layer, after it wrote a variable file
C26_NoLayerWitness ==
    /\ pc = "crashed"
    /\ obj.cls = "Failed"
    /\ Len(f) = 2
    /\ ~has_layer(elements, f[1])
    /\ \E k \in 1..Len(files) : IsVariableFile(k)

(***************************************************************************)
(* C27: files are opened for objects that were built                       *)
(***************************************************************************)
\* a file for the container of the running round exists
RoundFileExists == \E k \in 1..Len(files) : files[k].path = f

\* one step of a run: a file is opened only for the object built by the
\* round before, behind the files written so far; a round whose object is
\* not built opens no file
C27_Step ==
    /\ files' # files =>
          /\ obj.cls \notin {"None", "Failed"}
          /\ obj' = obj
          /\ Len(files') = Len(files) + 1
          /\ SubSeq(files', 1, Len(files)) = files
          /\ Last(files').path = f
          /\ Last(files').bytes = Container_write(obj.container).bytes
    /\ (pc' \in {"crashed", "exited"} /\ obj'.cls = "Failed") =>
          /\ files' = files
          /\ ~(\E k \in 1..Len(files') : files'[k].path = f')

\* C27: a container file is opened only after its object is built; when
\* building a p-attribute's variable, a segmentation layer or an annotation's
\* variable fails, no file for that container exists afterwards and the
\* files written before are unchanged
C27_BuiltBeforeOpened == [][C27_Step]_vars

\* a run ended because an annotation's variable could not be built, after a
\* p-attribute's variable and the segmentation layer were written
C27_Witness ==
    /\ pc = "exited"
    /\ obj.cls = "Failed"
    /\ f = <<"s", "n">>
    /\ Len(files) = 3
    /\ ~RoundFileExists

\* a run ended because a p-attribute's variable could not be built
C27_PAttrWitness ==
    /\ pc = "crashed"
    /\ obj.cls = "Failed"
    /\ f = <<"b">>
    /\ Len(files) = 2
    /\ ~RoundFileExists

\* a run ended because its segmentation layer could not be built: the
\* input has no span for it
C27_LayerWitness ==
    /\ pc = "crashed"
    /\ obj.cls = "Failed"
    /\ f = <<"s", "s">>
    /\ Len(files) = 2
    /\ ~RoundFileExists

(***************************************************************************)
(* C29: the checks before the first file                                   *)
(***************************************************************************)
\* not one p-attribute, s-attribute or annotation was declared
NothingDeclared == arg.p_attrs = <<>> /\ arg.s_attrs = <<>> /\ arg.s_annos = <<>>

\* C29: when the output directory exists and --force is not given, or when
\* nothing was declared, the run ends at its checks with no directory made
\* and no file opened; directories and files are made only by runs that
\* passed the checks
C29_ChecksBeforeFiles ==
    ((arg.exists /\ ~arg.force) \/ NothingDeclared) =>
        /\ pc \in {"checks", "exited"}
        /\ stack = <<>>
        /\ files = <<>>

\* a run with attributes to encode ended at the existing output directory
C29_Witness ==
    /\ pc = "exited"
    /\ arg.exists /\ ~arg.force
    /\ ~NothingDeclared
    /\ stack = <<>>
    /\ files = <<>>

\* a run with nothing declared ended before it made the output directory
C29_NothingDeclaredWitness ==
    /\ pc = "exited"
    /\ NothingDeclared
    /\ ~arg.exists
    /\ stack = <<>>
    /\ files = <<>>

====
